---- MODULE Spec2Model ----
(***************************************************************************)
(* Verification model of the kohonen crate (Super-SOM training engine).   *)
(*                                                                         *)
(* f64 values are modelled as fixed-point integers counting units of      *)
(* 1/Scale, with truncating arithmetic, plus the distinguished value NaN. *)
(* Every arithmetic operator propagates NaN and every comparison with NaN *)
(* is false, as in IEEE 754.                                               *)
(***************************************************************************)
EXTENDS Integers, Sequences, FiniteSets, TLC

VARIABLES
    \* ---- struct Som (map/som.rs) ----
    dims, nrows, ncols, weights, params, epoch, distances_matrix,
    \* ---- the caller of Som::epoch ----
    status,      \* "ok" | "panicked": whether a call has unwound
    calls,       \* number of epoch() calls issued so far
    somes,       \* number of those calls that returned Some(())
    returned,    \* what the last epoch() call returned: "none" | "some" | "-"
    trace,       \* the train() calls of the last epoch() call, in order
    initial,     \* the weights as init_weights() left them
    fed,         \* every sample row handed to train() so far
    \* ---- a single call of a pure function of calc/ ----
    call

vars == <<dims, nrows, ncols, weights, params, epoch, distances_matrix,
          status, calls, somes, returned, trace, initial, fed, call>>

somVars == <<dims, nrows, ncols, weights, params, epoch, distances_matrix,
             status, calls, somes, returned, trace, initial, fed>>

-----------------------------------------------------------------------------
(* Bounds of the model.                                                    *)

\* grids have 1..MaxGrid rows and 1..MaxGrid columns
MaxGrid == 3
\* params.epochs ranges over 0..MaxEpochs
MaxEpochs == 2
\* epoch() is called at most params.epochs + MaxExtraCalls times
MaxExtraCalls == 1
\* slices handed to Metric::distance have 0..MaxLen elements
MaxLen == 3
\* tables searched by the nearest-neighbor functions have 1..MaxRows rows
MaxRows == 3
\* schedules are evaluated for max_epochs in 1..MaxSchedule
MaxSchedule == 4
\* tables handed to normalize have 1..MaxNormRows rows
MaxNormRows == 2
\* rows are pushed to a data frame while it has fewer than MaxFrameRows rows
MaxFrameRows == 3

-----------------------------------------------------------------------------
(* f64                                                                     *)

Scale == 1000
NaN == -1000000000
F64Max == 2000000

One == Scale
Half == Scale \div 2

IsNaN(x) == x = NaN

\* integer -> f64 (`as f64`)
AsF64(n) == n * Scale

\* division rounding toward zero
TruncDiv(a, b) ==
    IF b = 0 THEN 0
    ELSE IF (a >= 0) = (b > 0) \/ a = 0
         THEN (IF a >= 0 THEN a ELSE -a) \div (IF b > 0 THEN b ELSE -b)
         ELSE -((IF a >= 0 THEN a ELSE -a) \div (IF b > 0 THEN b ELSE -b))

\* +-infinity is saturated to +-F64Max
IsInf(x) == x >= F64Max \/ x <= -F64Max
Sat(x) == IF x >= F64Max THEN F64Max ELSE IF x <= -F64Max THEN -F64Max ELSE x
Sign(x) == IF x > 0 THEN 1 ELSE IF x < 0 THEN -1 ELSE 0

FAdd(a, b) ==
    IF IsNaN(a) \/ IsNaN(b) THEN NaN
    ELSE IF IsInf(a) /\ IsInf(b) /\ Sign(a) # Sign(b) THEN NaN
    ELSE Sat(a + b)
FNeg(a) == IF IsNaN(a) THEN NaN ELSE -a
FSub(a, b) == FAdd(a, FNeg(b))
FMul(a, b) ==
    IF IsNaN(a) \/ IsNaN(b) THEN NaN
    ELSE IF IsInf(a) \/ IsInf(b)
         THEN (IF a = 0 \/ b = 0 THEN NaN ELSE Sign(a) * Sign(b) * F64Max)
    ELSE Sat(TruncDiv(a * b, Scale))
\* 0/0 and inf/inf are NaN, x/0 is an infinity
FDiv(a, b) ==
    IF IsNaN(a) \/ IsNaN(b) THEN NaN
    ELSE IF b = 0 THEN (IF a = 0 THEN NaN ELSE Sign(a) * F64Max)
    ELSE IF IsInf(b) THEN (IF IsInf(a) THEN NaN ELSE 0)
    ELSE IF IsInf(a) THEN Sign(a) * Sign(b) * F64Max
    ELSE Sat(TruncDiv(a * Scale, b))

FLt(a, b) == ~IsNaN(a) /\ ~IsNaN(b) /\ a < b
FLe(a, b) == ~IsNaN(a) /\ ~IsNaN(b) /\ a <= b
FGe(a, b) == ~IsNaN(a) /\ ~IsNaN(b) /\ a >= b

RECURSIVE ISqrtRec(_, _, _)
ISqrtRec(n, lo, hi) ==
    IF lo >= hi THEN lo
    ELSE LET mid == (lo + hi + 1) \div 2
         IN  IF mid * mid <= n THEN ISqrtRec(n, mid, hi) ELSE ISqrtRec(n, lo, mid - 1)

\* f64::sqrt: the largest r with (r/Scale)^2 <= x/Scale; NaN for negative x
FSqrt(x) ==
    IF IsNaN(x) \/ x < 0 THEN NaN ELSE ISqrtRec(x * Scale, 0, 46340)

\* f64::powi(2)
FSq(x) == FMul(x, x)

-----------------------------------------------------------------------------
(* data::DataFrame: a row-major table [ncols, nrows, data]; cell (r, c),   *)
(* both counted from 0, is data[r * ncols + c + 1].                        *)

DfIndex(df, row, col) == row * df.ncols + col

DfFilled(nr, nc, fill) ==
    [ncols |-> nc, nrows |-> nr, data |-> [i \in 1..(nr * nc) |-> fill]]

DfGet(df, row, col) == df.data[DfIndex(df, row, col) + 1]

DfSet(df, row, col, value) ==
    [df EXCEPT !.data[DfIndex(df, row, col) + 1] = value]

DfGetRow(df, row) ==
    SubSeq(df.data, DfIndex(df, row, 0) + 1, DfIndex(df, row, 0) + df.ncols)

-----------------------------------------------------------------------------
(* calc::metric::Metric                                                    *)

Metrics == {"SqEuclidean", "Euclidean", "Tanimoto"}

\* the loop `for (a, b) in from.iter().zip(to)` of the Euclidean arms
RECURSIVE SqSum(_, _, _, _)
SqSum(from, to, i, sum) ==
    IF i > Len(from) THEN sum
    ELSE IF IsNaN(from[i]) \/ IsNaN(to[i]) THEN SqSum(from, to, i + 1, sum)
    ELSE SqSum(from, to, i + 1, FAdd(sum, FSq(FSub(from[i], to[i]))))

\* the loop of the Tanimoto arm; acc = <<counter, sum>>
RECURSIVE TanimotoLoop(_, _, _, _)
TanimotoLoop(from, to, i, acc) ==
    IF i > Len(from) THEN acc
    ELSE IF IsNaN(from[i]) \/ IsNaN(to[i]) THEN TanimotoLoop(from, to, i + 1, acc)
    ELSE LET a == from[i]
             b == to[i]
             inc == IF FGe(a, Half)
                    THEN (IF FLt(b, Half) THEN 1 ELSE 0)
                    ELSE (IF FGe(b, Half) THEN 1 ELSE 0)
         IN  TanimotoLoop(from, to, i + 1, <<acc[1] + 1, acc[2] + inc>>)

\* Metric::distance with the Tanimoto arm dividing by the length of the
\* slices instead of the counter
DistanceCountsAll(metric, from, to) ==
    CASE metric = "SqEuclidean" -> SqSum(from, to, 1, 0)
      [] metric = "Euclidean"   -> FSqrt(SqSum(from, to, 1, 0))
      [] metric = "Tanimoto"    ->
            LET acc == TanimotoLoop(from, to, 1, <<0, 0>>)
            IN  FDiv(AsF64(acc[2]), AsF64(Len(from)))

\* Metric::distance panics unless both slices have the same length
DistancePanics(from, to) == Len(from) # Len(to)

Distance(metric, from, to) ==
    CASE metric = "SqEuclidean" -> SqSum(from, to, 1, 0)
      [] metric = "Euclidean"   -> FSqrt(SqSum(from, to, 1, 0))
      [] metric = "Tanimoto"    ->
            LET acc == TanimotoLoop(from, to, 1, <<0, 0>>)
            IN  FDiv(AsF64(acc[2]), AsF64(acc[1]))

-----------------------------------------------------------------------------
(* map::som::Layer                                                         *)

\* Layer::new
Layer(n, w, categorical) == [ncols |-> n, weight |-> w, categorical |-> categorical]

-----------------------------------------------------------------------------
(* calc::nn: linear scans for the best-matching row.  Each scan starts     *)
(* from (min_idx, min_dist) = (0, f64::MAX) and returns                    *)
(* [panicked, idx, dist].                                                  *)

\* the searches without their assert_eq
NnNoAssert == [panicked |-> FALSE, idx |-> 0, dist |-> NaN]

NnPanic == [panicked |-> TRUE, idx |-> 0, dist |-> NaN]
NnResult(i, d) == [panicked |-> FALSE, idx |-> i, dist |-> d]

\* the scan with <= for <
RECURSIVE NnLoopLastWins(_, _, _, _, _)
NnLoopLastWins(from, to, idx_to, min_idx, min_dist) ==
    IF idx_to >= to.nrows THEN <<min_idx, min_dist>>
    ELSE LET dist == Distance("SqEuclidean", from, DfGetRow(to, idx_to))
         IN  IF FLe(dist, min_dist)
             THEN NnLoopLastWins(from, to, idx_to + 1, idx_to, dist)
             ELSE NnLoopLastWins(from, to, idx_to + 1, min_idx, min_dist)

RECURSIVE NnLoop(_, _, _, _, _)
NnLoop(from, to, idx_to, min_idx, min_dist) ==
    IF idx_to >= to.nrows THEN <<min_idx, min_dist>>
    ELSE LET dist == Distance("SqEuclidean", from, DfGetRow(to, idx_to))
         IN  IF FLt(dist, min_dist)
             THEN NnLoop(from, to, idx_to + 1, idx_to, dist)
             ELSE NnLoop(from, to, idx_to + 1, min_idx, min_dist)

nearest_neighbor(from, to) ==
    IF Len(from) # to.ncols THEN NnPanic
    ELSE LET m == NnLoop(from, to, 0, 0, F64Max)
         IN  NnResult(m[1], FSqrt(m[2]))

RECURSIVE NnTanimotoLoop(_, _, _, _, _)
NnTanimotoLoop(from, to, idx_to, min_idx, min_dist) ==
    IF idx_to >= to.nrows THEN <<min_idx, min_dist>>
    ELSE LET dist == Distance("Tanimoto", from, DfGetRow(to, idx_to))
         IN  IF FLt(dist, min_dist)
             THEN NnTanimotoLoop(from, to, idx_to + 1, idx_to, dist)
             ELSE NnTanimotoLoop(from, to, idx_to + 1, min_idx, min_dist)

nearest_neighbor_tanimoto(from, to) ==
    IF Len(from) # to.ncols THEN NnPanic
    ELSE LET m == NnTanimotoLoop(from, to, 0, 0, F64Max)
         IN  NnResult(m[1], FSqrt(m[2]))

\* the inner loop without `start = end`
RECURSIVE XyfRowDistNoAdvance(_, _, _, _, _, _)
XyfRowDistNoAdvance(from, row_to, layers, l, start, dist) ==
    IF l > Len(layers) THEN dist
    ELSE LET layer == layers[l]
             end == start + layer.ncols
             d == IF layer.categorical
                  THEN Distance("Tanimoto", SubSeq(from, start + 1, end),
                                SubSeq(row_to, start + 1, end))
                  ELSE Distance("Euclidean", SubSeq(from, start + 1, end),
                                SubSeq(row_to, start + 1, end))
         IN  XyfRowDistNoAdvance(from, row_to, layers, l + 1, start,
                                 IF ~IsNaN(d) THEN FAdd(dist, FMul(d, layer.weight)) ELSE dist)

\* the inner loop `for layer in layers`: the weighted distance of one row
RECURSIVE XyfRowDist(_, _, _, _, _, _)
XyfRowDist(from, row_to, layers, l, start, dist) ==
    IF l > Len(layers) THEN dist
    ELSE LET layer == layers[l]
             end == start + layer.ncols
             d == IF layer.categorical
                  THEN Distance("Tanimoto", SubSeq(from, start + 1, end),
                                SubSeq(row_to, start + 1, end))
                  ELSE Distance("Euclidean", SubSeq(from, start + 1, end),
                                SubSeq(row_to, start + 1, end))
         IN  XyfRowDist(from, row_to, layers, l + 1, end,
                        IF ~IsNaN(d) THEN FAdd(dist, FMul(d, layer.weight)) ELSE dist)

RECURSIVE XyfLoop(_, _, _, _, _, _)
XyfLoop(from, to, layers, idx_to, min_idx, min_dist) ==
    IF idx_to >= to.nrows THEN <<min_idx, min_dist>>
    ELSE LET dist == XyfRowDist(from, DfGetRow(to, idx_to), layers, 1, 0, 0)
         IN  IF FLt(dist, min_dist)
             THEN XyfLoop(from, to, layers, idx_to + 1, idx_to, dist)
             ELSE XyfLoop(from, to, layers, idx_to + 1, min_idx, min_dist)

RECURSIVE LayerWidth(_, _)
LayerWidth(layers, l) ==
    IF l > Len(layers) THEN 0 ELSE layers[l].ncols + LayerWidth(layers, l + 1)

\* the slices from[start..end] panic when the layers are wider than the row
nearest_neighbor_xyf(from, to, layers) ==
    IF Len(from) # to.ncols THEN NnPanic
    ELSE IF to.nrows > 0 /\ LayerWidth(layers, 1) > Len(from) THEN NnPanic
    ELSE LET m == XyfLoop(from, to, layers, 0, 0, F64Max)
         IN  NnResult(m[1], m[2])

-----------------------------------------------------------------------------
(* f64::exp and f64::ln                                                    *)

\* Taylor series of exp(-f) for 0 <= f <= 1, term by term
RECURSIVE ExpSeries(_, _, _, _)
ExpSeries(f, k, term, sum) ==
    IF term = 0 THEN sum
    ELSE LET next == TruncDiv(-(term * f), k * Scale)
         IN  ExpSeries(f, k + 1, next, sum + term)

RECURSIVE ExpNegInt(_)
ExpNegInt(n) ==
    IF n = 0 THEN One
    ELSE TruncDiv(ExpSeries(Scale, 1, One, 0) * ExpNegInt(n - 1), Scale)

\* exp(-t) for t >= 0
ExpNeg(t) == TruncDiv(ExpNegInt(t \div Scale) * ExpSeries(t % Scale, 1, One, 0), Scale)

\* Taylor series of exp(f) for 0 <= f <= 1, term by term
RECURSIVE ExpSeriesPos(_, _, _, _)
ExpSeriesPos(f, k, term, sum) ==
    IF term = 0 THEN sum
    ELSE LET next == TruncDiv(term * f, k * Scale)
         IN  ExpSeriesPos(f, k + 1, next, sum + term)

\* exp(n) for n in 0..7, to the precision of the arithmetic
ExpPosInt(n) ==
    IF n = 0 THEN One
    ELSE <<2718, 7389, 20086, 54598, 148413, 403429, 1096633>>[n]

\* the least argument whose exponential is beyond the range of the arithmetic
ExpOverflow == 7601

\* exp(t) for 0 <= t < ExpOverflow
ExpPos(t) == TruncDiv(ExpPosInt(t \div Scale) * ExpSeriesPos(t % Scale, 1, One, 0), Scale)

FExp(x) ==
    IF IsNaN(x) THEN NaN
    ELSE IF x >= ExpOverflow THEN F64Max
    ELSE IF x <= -F64Max THEN 0
    ELSE IF x <= 0 THEN ExpNeg(-x)
    ELSE Sat(ExpPos(x))

\* the least t in lo..hi with exp(-t) <= q
RECURSIVE LnSearch(_, _, _)
LnSearch(q, lo, hi) ==
    IF lo >= hi THEN lo
    ELSE LET mid == (lo + hi) \div 2
         IN  IF ExpNeg(mid) <= q THEN LnSearch(q, lo, mid) ELSE LnSearch(q, mid + 1, hi)

\* the least t in lo..hi with exp(t) >= q
RECURSIVE LnSearchPos(_, _, _)
LnSearchPos(q, lo, hi) ==
    IF lo >= hi THEN lo
    ELSE LET mid == (lo + hi) \div 2
         IN  IF ExpPos(mid) >= q THEN LnSearchPos(q, lo, mid) ELSE LnSearchPos(q, mid + 1, hi)

FLn(q) ==
    IF IsNaN(q) \/ q < 0 THEN NaN
    ELSE IF q = 0 THEN -F64Max
    ELSE IF q >= F64Max THEN F64Max
    ELSE IF q <= One THEN -LnSearch(q, 0, 10 * Scale)
    ELSE LnSearchPos(q, 0, ExpOverflow - 1)

\* i32::MAX and i32::MIN
I32Max == 2147483647
I32Min == -I32Max - 1

\* `x.floor() as i32`: NaN casts to 0, and the cast saturates, so values
\* beyond the range of i32 (here the one value F64Max) cast to its ends
FloorAsI32(x) ==
    IF IsNaN(x) THEN 0
    ELSE IF x >= F64Max THEN I32Max
    ELSE IF x <= -F64Max THEN I32Min
    ELSE x \div Scale

\* a + b and a - b leave the range of i32: the build with overflow checks
\* panics there
AddOverflows(a, b) ==
    IF b >= 0 THEN a > I32Max - b ELSE a < I32Min - b
SubOverflows(a, b) ==
    IF b >= 0 THEN a < I32Min + b ELSE a > I32Max + b

\* a + b and a - b of i32 in the build without overflow checks: the result
\* modulo 2^32
WrappingAdd(a, b) ==
    IF ~AddOverflows(a, b) THEN a + b
    ELSE IF b >= 0 THEN (a - I32Max - 1) + (b - I32Max - 1)
    ELSE (a + I32Max + 1) + (b + I32Max + 1)
WrappingSub(a, b) ==
    IF ~SubOverflows(a, b) THEN a - b
    ELSE IF b >= 0 THEN (a + I32Max + 1) - (b - I32Max - 1)
    ELSE (a - I32Max - 1) - (b + I32Max + 1)

Min(a, b) == IF a <= b THEN a ELSE b
Max(a, b) == IF a >= b THEN a ELSE b

-----------------------------------------------------------------------------
(* calc::neighborhood::Neighborhood                                        *)

Neighborhoods == {"Gauss", "Triangular", "Epanechnikov", "Quartic", "Triweight"}

\* Neighborhood::weight
KernelWeight(neigh, distance) ==
    CASE neigh = "Gauss" ->
            IF distance = 0 THEN One
            ELSE FExp(FMul(FMul(-Half, distance), distance))
      [] neigh = "Triangular" ->
            IF FGe(distance, One) THEN 0 ELSE FSub(One, distance)
      [] neigh = "Epanechnikov" ->
            IF FGe(distance, One) THEN 0 ELSE FSub(One, FMul(distance, distance))
      [] neigh = "Quartic" ->
            IF FGe(distance, One) THEN 0 ELSE FSq(FSub(One, FMul(distance, distance)))
      [] neigh = "Triweight" ->
            IF FGe(distance, One) THEN 0
            ELSE LET b == FSub(One, FMul(distance, distance)) IN FMul(FSq(b), b)

\* Neighborhood::radius
KernelRadius(neigh) == IF neigh = "Gauss" THEN AsF64(3) ELSE AsF64(1)

-----------------------------------------------------------------------------
(* map::som::DecayParam                                                    *)

\* DecayParam::lin, DecayParam::exp
Lin(start, end) == [start |-> start, end |-> end, function |-> "Linear"]
Exp(start, end) == [start |-> start, end |-> end, function |-> "Exponential"]

\* DecayParam::get with the epoch divided by max_epochs instead of
\* max_epochs - 1
DecayGetOverMax(p, e, max_epochs) ==
    IF p.function = "Linear"
    THEN LET frac == FDiv(AsF64(e), AsF64(max_epochs))
         IN  FAdd(p.start, FMul(frac, FSub(p.end, p.start)))
    ELSE LET rate == FMul(FDiv(One, FNeg(AsF64(max_epochs))),
                          FLn(FDiv(p.end, p.start)))
         IN  FMul(p.start, FExp(FMul(FNeg(rate), AsF64(e))))

\* DecayParam::get
DecayGet(p, e, max_epochs) ==
    IF p.function = "Linear"
    THEN LET frac == FDiv(AsF64(e), AsF64(max_epochs - 1))
         IN  FAdd(p.start, FMul(frac, FSub(p.end, p.start)))
    ELSE LET rate == FMul(FDiv(One, FNeg(AsF64(max_epochs - 1))),
                          FLn(FDiv(p.end, p.start)))
         IN  FMul(p.start, FExp(FMul(FNeg(rate), AsF64(e))))

-----------------------------------------------------------------------------
(* map::som::SomParams                                                     *)

\* SomParams::calc_start_columns
RECURSIVE CalcStartColumns(_, _, _)
CalcStartColumns(layers, i, start_col) ==
    IF i > Len(layers) THEN <<>>
    ELSE <<start_col>> \o CalcStartColumns(layers, i + 1, start_col + layers[i].ncols)

\* SomParams::simple
SomParamsSimple(epochs, neighborhood, alpha, radius, decay) ==
    [epochs |-> epochs, neighborhood |-> neighborhood, alpha |-> alpha,
     radius |-> radius, decay |-> decay, layers |-> <<>>, start_columns |-> <<0>>]

\* SomParams::xyf
SomParamsXyf(epochs, neighborhood, alpha, radius, decay, layers) ==
    [epochs |-> epochs, neighborhood |-> neighborhood, alpha |-> alpha,
     radius |-> radius, decay |-> decay, layers |-> layers,
     start_columns |-> CalcStartColumns(layers, 1, 0)]

-----------------------------------------------------------------------------
(* map::som::Som                                                           *)

\* Som::to_row_col, Som::to_index
ToRowCol(index) == <<index \div ncols, index % ncols>>
ToIndex(row, col) == row * ncols + col

\* the inner loops with the second unit indexed column-major
RECURSIVE DistanceRowLoopColMajor(_, _, _, _, _, _)
DistanceRowLoopColMajor(df, nr, nc, r1, c1, m) ==
    IF m >= nr * nc \/ df.nrows = 0 THEN df
    ELSE LET r2 == m \div nc
             c2 == m % nc
             idx1 == r1 * nc + c1
             idx2 == c2 * nr + r2
         IN  DistanceRowLoopColMajor(
                 DfSet(df, idx1, idx2,
                       Distance("Euclidean", <<AsF64(r1), AsF64(c1)>>,
                                <<AsF64(r2), AsF64(c2)>>)),
                 nr, nc, r1, c1, m + 1)

\* Som::calc_distance_matix, lines 258-267: the two inner loops for one
\* (r1, c1); iteration m has r2 = m div nc and c2 = m mod nc
RECURSIVE DistanceRowLoop(_, _, _, _, _, _)
DistanceRowLoop(df, nr, nc, r1, c1, m) ==
    IF m >= nr * nc \/ df.nrows = 0 THEN df
    ELSE LET r2 == m \div nc
             c2 == m % nc
             idx1 == r1 * nc + c1
             idx2 == r2 * nc + c2
         IN  DistanceRowLoop(
                 DfSet(df, idx1, idx2,
                       Distance("Euclidean", <<AsF64(r1), AsF64(c1)>>,
                                <<AsF64(r2), AsF64(c2)>>)),
                 nr, nc, r1, c1, m + 1)

\* Som::calc_distance_matix, lines 255-257: the two outer loops; iteration
\* n has r1 = n div nc and c1 = n mod nc
RECURSIVE DistanceMatixLoop(_, _, _, _)
DistanceMatixLoop(df, nr, nc, n) ==
    IF n >= nr * nc \/ df.nrows = 0 THEN df
    ELSE DistanceMatixLoop(DistanceRowLoop(df, nr, nc, n \div nc, n % nc, 0),
                           nr, nc, n + 1)

\* Som::calc_distance_matix
CalcDistanceMatix(nr, nc) ==
    DistanceMatixLoop(DfFilled(nr * nc, nr * nc, 0), nr, nc, 0)

\* Som::init_weights: every cell is a draw of the thread-local generator,
\* uniform in [0, 1).  The generator is modelled as a stream fixed by an
\* arbitrary seed.
GenRange01(seed, i) == (((i * 7 + seed * 3) * 13) % 10) * (Scale \div 10)

InitWeights(df, seed) == [df EXCEPT !.data = [i \in 1..Len(df.data) |-> GenRange01(seed, i)]]

\* DataFrame::means
RECURSIVE MeansLoop(_, _, _, _, _)
MeansLoop(df, row, col, sum, count) ==
    IF row >= df.nrows THEN FDiv(sum, AsF64(count))
    ELSE LET v == DfGet(df, row, col)
         IN  IF ~IsNaN(v) THEN MeansLoop(df, row + 1, col, FAdd(sum, v), count + 1)
             ELSE MeansLoop(df, row + 1, col, sum, count)

Means(df) == [c \in 1..df.ncols |-> MeansLoop(df, 0, c - 1, 0, 0)]

\* the decay with the column mean taken anew for every cell, from the
\* cells as decayed so far
RECURSIVE DecayRunningMeans(_, _)
DecayRunningMeans(w, i) ==
    IF i > Len(w.data) THEN w
    ELSE CHOOSE r \in
           {DecayRunningMeans(w2, i + 1) :
            w2 \in {[w EXCEPT !.data[i] =
                        FSub(w.data[i],
                             FMul(DecayGet(params.decay, epoch, params.epochs),
                                  FSub(w.data[i],
                                       MeansLoop(w, 0, (i - 1) % w.ncols, 0, 0))))]}} : TRUE

DecayWeightsRunningMeans(w) == DecayRunningMeans(w, 1)

\* Som::decay_weights: the means are taken once, then every cell is decayed
DecayWeights(w) ==
    LET means == Means(w)
        cols == w.ncols
        decay == DecayGet(params.decay, epoch, params.epochs)
    IN  [w EXCEPT !.data = [i \in 1..Len(w.data) |->
            LET v == w.data[i]
                m == means[((i - 1) % cols) + 1]
            IN  FSub(v, FMul(decay, FSub(v, m)))]]

\* Som::train, lines 341-352: the best-matching unit
Nearest(w, sample) ==
    IF Len(params.layers) = 0 THEN nearest_neighbor(sample, w)
    ELSE IF Len(params.layers) = 1
         THEN (IF params.layers[1].categorical
               THEN nearest_neighbor_tanimoto(sample, w)
               ELSE nearest_neighbor(sample, w))
    ELSE nearest_neighbor_xyf(sample, w, params.layers)

\* In the operators below `CHOOSE r \in {F(x) : x \in {e}} : TRUE` is F(e)
\* with e evaluated once.

\* the update of one unit without the is_nan test of line 375
RECURSIVE UpdateUnitNoNanCheck(_, _, _, _, _, _)
UpdateUnitNoNanCheck(w, sample, index, weight, alpha, i) ==
    IF i >= Min(Len(sample), dims) THEN w
    ELSE CHOOSE r \in
           {UpdateUnitNoNanCheck(DfSet(w, index, i,
                                       FAdd(value, FMul(FMul(weight, alpha),
                                                        FSub(sample[i + 1], value)))),
                                 sample, index, weight, alpha, i + 1) :
            value \in {DfGet(w, index, i)}} : TRUE

\* Som::train, lines 374-380: the update of one unit, component by component
RECURSIVE UpdateUnit(_, _, _, _, _, _)
UpdateUnit(w, sample, index, weight, alpha, i) ==
    IF i >= Min(Len(sample), dims) THEN w
    ELSE IF ~IsNaN(sample[i + 1])
         THEN CHOOSE r \in
                {UpdateUnit(DfSet(w, index, i,
                                  FAdd(value, FMul(FMul(weight, alpha),
                                                   FSub(sample[i + 1], value)))),
                            sample, index, weight, alpha, i + 1) :
                 value \in {DfGet(w, index, i)}} : TRUE
         ELSE UpdateUnit(w, sample, index, weight, alpha, i + 1)

\* the ball test against the squared search radius
InBallSquared(dist, search_rad) == FLe(dist, FSq(search_rad))

\* Som::train, line 372: the ball test inside the rectangle
InBall(dist, search_rad) == FLe(dist, search_rad)

\* Som::train, lines 368-383: the units of the rectangle, row by row;
\* k counts the cells of the rectangle already visited
RECURSIVE TrainLoop(_, _, _, _, _, _)
TrainLoop(w, sample, nearest, rect, sched, k) ==
    LET width == rect.c_max - rect.c_min + 1
        height == rect.r_max - rect.r_min + 1
    IN  IF width <= 0 \/ height <= 0 \/ k >= width * height THEN w
        ELSE LET r == rect.r_min + (k \div width)
                 c == rect.c_min + (k % width)
                 index == ToIndex(r, c)
                 dist == DfGet(distances_matrix, nearest, index)
             IN  IF InBall(dist, sched.search_rad)
                 THEN CHOOSE res \in
                        {TrainLoop(w2, sample, nearest, rect, sched, k + 1) :
                         w2 \in {UpdateUnit(w, sample, index,
                                            KernelWeight(params.neighborhood,
                                                         FMul(sched.radius_inv, dist)),
                                            sched.alpha, 0)}} : TRUE
                 ELSE TrainLoop(w, sample, nearest, rect, sched, k + 1)

\* Som::train, lines 355-360
TrainSchedule ==
    LET alpha == DecayGet(params.alpha, epoch, params.epochs)
        radius == DecayGet(params.radius, epoch, params.epochs)
        search_rad == FMul(radius, KernelRadius(params.neighborhood))
    IN  [alpha |-> alpha, radius |-> radius, radius_inv |-> FDiv(One, radius),
         search_rad |-> search_rad, search_rad_i |-> FloorAsI32(search_rad)]

\* Som::train, lines 353 and 363-366
TrainRect(nearest, search_rad_i) ==
    LET rc == ToRowCol(nearest)
    IN  [r_min |-> Max(0, WrappingSub(rc[1], search_rad_i)),
         r_max |-> Min(nrows - 1, WrappingAdd(rc[1], search_rad_i)),
         c_min |-> Max(0, WrappingSub(rc[2], search_rad_i)),
         c_max |-> Min(ncols - 1, WrappingAdd(rc[2], search_rad_i))]

\* Som::train, lines 363-366: one of the four sums leaves the range of i32
RectOverflows(nearest, search_rad_i) ==
    LET rc == ToRowCol(nearest)
    IN  \/ SubOverflows(rc[1], search_rad_i) \/ AddOverflows(rc[1], search_rad_i)
        \/ SubOverflows(rc[2], search_rad_i) \/ AddOverflows(rc[2], search_rad_i)

\* Som::train: [panicked, nearest, weights]
Train(w, sample) ==
    CHOOSE res \in
      {IF nn.panicked THEN [panicked |-> TRUE, nearest |-> 0, weights |-> w]
       ELSE [panicked |-> FALSE, nearest |-> nn.idx,
             weights |-> CHOOSE w2 \in
                {TrainLoop(w, sample, nn.idx, rect, sched, 0) :
                 rect \in {TrainRect(nn.idx, sched.search_rad_i)}} : TRUE] :
       nn \in {Nearest(w, sample)}, sched \in {TrainSchedule}} : TRUE

\* Som::epoch, lines 313-316: train() on the chosen rows, in order.
\* Returns [panicked, weights, trace]; the trace keeps, for every train()
\* call, the epoch counter it ran under, the row, the sample, the unit found
\* and the weights before and after.
RECURSIVE TrainAll(_, _, _, _, _)
TrainAll(w, samples, indices, k, tr) ==
    IF k > Len(indices) THEN [panicked |-> FALSE, weights |-> w, trace |-> tr]
    ELSE CHOOSE res \in
           {IF t.panicked THEN [panicked |-> TRUE, weights |-> w, trace |-> tr]
            ELSE TrainAll(t.weights, samples, indices, k + 1,
                          Append(tr, [epoch |-> epoch, row |-> indices[k],
                                      sample |-> DfGetRow(samples, indices[k]),
                                      nearest |-> t.nearest,
                                      before |-> w, after |-> t.weights])) :
            t \in {Train(w, DfGetRow(samples, indices[k]))}} : TRUE

-----------------------------------------------------------------------------
(* The training state machine: a Som and the caller of Som::epoch.         *)

\* Option<usize>
None == [some |-> FALSE, v |-> 0]
Some(n) == [some |-> TRUE, v |-> n]
UnwrapOr(count, default) == IF count.some THEN count.v ELSE default

Cont(n, w) == Layer(n, w, FALSE)
Cat(n, w) == Layer(n, w, TRUE)

\* The parameter sets a Som is built with: names.len(), the SomParams and
\* the seed of the generator
ParamChoices ==
    { [dims |-> 2, neighborhood |-> "Gauss", alpha |-> Lin(500, 100),
       radius |-> Lin(700, 450), decay |-> Exp(200, 10), layers |-> <<>>,
       seed |-> 0],
      [dims |-> 2, neighborhood |-> "Gauss", alpha |-> Lin(1000, 1000),
       radius |-> Lin(450, 450), decay |-> Lin(200, 100),
       layers |-> <<Cont(1, 500), Cat(1, 500)>>, seed |-> 1],
      [dims |-> 2, neighborhood |-> "Triangular", alpha |-> Lin(1000, 500),
       radius |-> Lin(1500, 1000), decay |-> Lin(0, 0),
       layers |-> <<Cat(2, 1000)>>, seed |-> 2],
      [dims |-> 1, neighborhood |-> "Epanechnikov", alpha |-> Exp(500, 100),
       radius |-> Lin(2000, 1000), decay |-> Lin(100, 100), layers |-> <<>>,
       seed |-> 3],
      [dims |-> 2, neighborhood |-> "Quartic", alpha |-> Lin(500, 100),
       radius |-> Exp(1500, 500), decay |-> Lin(200, 0),
       layers |-> <<Cont(2, 1000)>>, seed |-> 4],
      [dims |-> 3, neighborhood |-> "Triweight", alpha |-> Lin(800, 200),
       radius |-> Lin(1500, 1500), decay |-> Lin(300, 100),
       layers |-> <<Cat(2, 300), Cont(1, 700)>>, seed |-> 5] }

\* Sample tables of width d handed to epoch(): complete rows, a table whose
\* last column is missing in every row, and a table one column too wide
FullFrame(d) ==
    [ncols |-> d, nrows |-> 2,
     data |-> [i \in 1..(2 * d) |-> IF (i - 1) % d = (i - 1) \div d THEN One ELSE 0]]
NanFrame(d) ==
    [ncols |-> d, nrows |-> 1,
     data |-> [i \in 1..d |-> IF i = d THEN NaN ELSE 9 * (Scale \div 10)]]
WideFrame(d) ==
    [ncols |-> d + 1, nrows |-> 1, data |-> [i \in 1..(d + 1) |-> One]]

SampleFrames(d) == {FullFrame(d), NanFrame(d), WideFrame(d)}

Counts == {None, Some(0), Some(1), Some(3)}

\* the outcomes of rng.shuffle on 0..n-1
Shuffles(n) ==
    {p \in [1..n -> 0..(n - 1)] : \A i, j \in 1..n : p[i] = p[j] => i = j}

\* the whole shuffled list, whatever the count
TakeAll(indices, count, n) == indices

\* Som::epoch, lines 311-313: the first cnt indices of the shuffled list
Take(indices, count, n) == SubSeq(indices, 1, Min(UnwrapOr(count, n), n))

\* the guard of Som::epoch with > for >=
EpochDoneOffByOne == epoch > params.epochs

\* the guard of Som::epoch left out
EpochDoneNever == FALSE

\* Som::epoch, line 303
EpochDone == epoch >= params.epochs

\* an increment that skips a value
NextEpochSkips(e) == e + 2

\* Som::epoch, line 320
NextEpoch(e) == e + 1

\* a weights table with nrows * nrows rows
NewWeightsSquare(names_len, nr, nc) == DfFilled(nr * nr, names_len, 0)

\* Som::new, line 226
NewWeights(names_len, nr, nc) == DfFilled(nr * nc, names_len, 0)

IdleCall == [fn |-> "-"]

\* Som::new, and a caller that has not called yet
Init ==
    /\ \E nr \in 1..MaxGrid, nc \in 1..MaxGrid, e \in 0..MaxEpochs, p \in ParamChoices :
          /\ dims = p.dims
          /\ nrows = nr
          /\ ncols = nc
          /\ weights = InitWeights(NewWeights(p.dims, nr, nc), p.seed)
          /\ initial = InitWeights(NewWeights(p.dims, nr, nc), p.seed)
          /\ distances_matrix = CalcDistanceMatix(nr, nc)
          /\ params = IF Len(p.layers) = 0
                      THEN SomParamsSimple(e, p.neighborhood, p.alpha, p.radius, p.decay)
                      ELSE SomParamsXyf(e, p.neighborhood, p.alpha, p.radius, p.decay,
                                        p.layers)
    /\ epoch = 0
    /\ status = "ok"
    /\ calls = 0
    /\ somes = 0
    /\ returned = "-"
    /\ trace = <<>>
    /\ fed = {}
    /\ call = IdleCall

\* Som::epoch(samples, count); `taken` is the list of row indices the call
\* trains on: the first min(count.unwrap_or(nrows), nrows) of the shuffle
EpochCall(samples, taken) ==
    /\ calls' = calls + 1
    /\ IF EpochDone
       THEN /\ returned' = "none"
            /\ trace' = <<>>
            /\ UNCHANGED <<weights, epoch, status, somes, fed>>
       ELSE \E res \in {TrainAll(weights, samples, taken, 1, <<>>)} :
                IF res.panicked
                THEN /\ status' = "panicked"
                     /\ returned' = "-"
                     /\ weights' = res.weights
                     /\ trace' = res.trace
                     /\ UNCHANGED <<epoch, somes, fed>>
                ELSE /\ weights' = DecayWeights(res.weights)
                     /\ epoch' = NextEpoch(epoch)
                     /\ returned' = "some"
                     /\ somes' = somes + 1
                     /\ trace' = res.trace
                     /\ fed' = fed \cup {DfGetRow(samples, taken[k]) : k \in 1..Len(taken)}
                     /\ UNCHANGED status
    /\ UNCHANGED <<dims, nrows, ncols, params, distances_matrix, initial>>

\* an epoch() call of the caller of the training state machine
Epoch(samples, taken) ==
    /\ status = "ok"
    /\ calls < params.epochs + MaxExtraCalls
    /\ EpochCall(samples, taken)
    /\ UNCHANGED call

Next ==
    \E samples \in SampleFrames(dims) :
        \E taken \in {Take(p, count, samples.nrows) :
                      p \in Shuffles(samples.nrows), count \in Counts} :
            Epoch(samples, taken)

Spec == Init /\ [][Next]_vars

-----------------------------------------------------------------------------
(* Properties of the training state machine (Spec).                        *)

Units == 0..(nrows * ncols - 1)

\* column c of a table, as a sequence over its rows
Column(df, c) == [r \in 1..df.nrows |-> DfGet(df, r - 1, c)]

\* C1: once epoch >= params.epochs, a call to epoch() returns None and
\* leaves the epoch counter, every weight cell and the grid-distance table
\* unchanged, whatever samples and count it is given.
C1_DoneIsNoOp ==
    [][epoch >= params.epochs =>
          /\ returned' = "none"
          /\ epoch' = epoch
          /\ weights' = weights
          /\ distances_matrix' = distances_matrix]_vars

\* a call answered None by a Som that was trained to its last epoch
C1_Witness ==
    /\ returned = "none"
    /\ params.epochs > 0
    /\ epoch = params.epochs
    /\ weights # initial

\* C2: from a fresh Som with params.epochs = E, the n-th call of epoch()
\* returns Some and leaves the counter at n when n <= E, and returns None
\* when n > E; the counter therefore stops at exactly E.  (Calls that panic
\* on a sample of the wrong width return nothing and end the run.)
C2_FirstECallsReturnSome ==
    status = "ok" =>
        /\ epoch = Min(calls, params.epochs)
        /\ somes = epoch
        /\ calls > 0 => returned = (IF calls <= params.epochs THEN "some" ELSE "none")

\* the call after the last training epoch of a Som with two or more epochs
C2_Witness ==
    /\ status = "ok"
    /\ params.epochs >= 2
    /\ calls = params.epochs + 1
    /\ somes = params.epochs
    /\ returned = "none"

\* C3: the epoch counter never decreases and never exceeds params.epochs.
C3_EpochMonotoneBounded ==
    /\ [](epoch <= params.epochs)
    /\ [][epoch' >= epoch]_vars

\* the counter has climbed to its bound in two or more steps
C3_Witness ==
    /\ params.epochs >= 2
    /\ epoch = params.epochs
    /\ returned = "some"

ShapeOk(w) ==
    /\ w.nrows = nrows * ncols
    /\ w.ncols = dims
    /\ Len(w.data) = nrows * ncols * dims

\* C4: after construction, after every train() call and after every epoch()
\* call the weights table has nrows * ncols rows and dims columns.
C4_WeightsShape ==
    /\ ShapeOk(weights)
    /\ \A n \in 1..Len(trace) : ShapeOk(trace[n].after)

\* a trained, non-square Som
C4_Witness ==
    /\ nrows # ncols
    /\ epoch > 0
    /\ Len(trace) > 0
    /\ weights # initial

\* the squared planar distance between the grid positions of units i and j
GridD2(i, j) ==
    LET dr == (i \div ncols) - (j \div ncols)
        dc == (i % ncols) - (j % ncols)
    IN  dr * dr + dc * dc

\* R = sigma * kernel.radius() at epoch counter e
SearchRadiusAt(e) ==
    FMul(DecayGet(params.radius, e, params.epochs), KernelRadius(params.neighborhood))

\* the planar distance between units i and j is greater than R
BeyondRadius(i, j, R) ==
    /\ ~IsNaN(R)
    /\ R < F64Max
    /\ \/ R < 0
       \/ (R < 46340 /\ GridD2(i, j) * Scale * Scale > R * R)

\* C5: a train(sample) call changes no weight component of a unit whose
\* planar grid distance to the best-matching unit exceeds
\* R = sigma * kernel.radius().
C5_NeighborhoodTruncation ==
    \A n \in 1..Len(trace) :
        \A R \in {SearchRadiusAt(trace[n].epoch)} :
            \A u \in Units :
                BeyondRadius(trace[n].nearest, u, R) =>
                    DfGetRow(trace[n].after, u) = DfGetRow(trace[n].before, u)

\* a train() call that changed a unit other than the best-matching one and
\* had a unit beyond R
C5_Witness ==
    \E n \in 1..Len(trace) :
        /\ \E u \in Units :
              BeyondRadius(trace[n].nearest, u, SearchRadiusAt(trace[n].epoch))
        /\ \E u \in Units :
              /\ u # trace[n].nearest
              /\ DfGetRow(trace[n].after, u) # DfGetRow(trace[n].before, u)

\* the columns that are NaN in every sample of a set
NanColumns(smps) == {c \in 0..(dims - 1) : \A smp \in smps : IsNaN(smp[c + 1])}

PlanarCell(i, j) ==
    LET d == DfGet(distances_matrix, i, j)
        d2 == GridD2(i, j) * Scale * Scale
    IN  d >= 0 /\ d * d <= d2 /\ d2 < (d + 1) * (d + 1)

GridDistanceOk ==
    /\ distances_matrix.nrows = nrows * ncols
    /\ distances_matrix.ncols = nrows * ncols
    /\ \A i, j \in Units :
          /\ PlanarCell(i, j)
          /\ DfGet(distances_matrix, i, j) = DfGet(distances_matrix, j, i)
    /\ \A i \in Units : DfGet(distances_matrix, i, i) = 0
    /\ (nrows = 3 /\ ncols = 3) => DfGet(distances_matrix, 0, 8) = FSqrt(AsF64(8))

\* C10: grid_distance[i, j] is the planar Euclidean distance between
\* (i div ncols, i mod ncols) and (j div ncols, j mod ncols), symmetric with
\* a zero diagonal (sqrt(8) between units 0 and 8 of a 3x3 grid), and no
\* call modifies it.
C10_GridDistance ==
    /\ []GridDistanceOk
    /\ [][distances_matrix' = distances_matrix]_vars

\* a trained 3x3 Som
C10_Witness ==
    /\ epoch > 0
    /\ nrows = 3
    /\ ncols = 3
    /\ DfGet(distances_matrix, 0, 8) > 2 * Scale
    /\ weights # initial

-----------------------------------------------------------------------------
(* Single calls of the pure functions of calc/.                            *)

\* a Som that takes no part in the call
IdleSom ==
    /\ dims = 0 /\ nrows = 0 /\ ncols = 0 /\ epoch = 0
    /\ weights = DfFilled(0, 0, 0)
    /\ initial = DfFilled(0, 0, 0)
    /\ distances_matrix = DfFilled(0, 0, 0)
    /\ params = SomParamsSimple(0, "Gauss", Lin(0, 0), Lin(0, 0), Lin(0, 0))
    /\ status = "ok" /\ calls = 0 /\ somes = 0 /\ returned = "-"
    /\ trace = <<>> /\ fed = {}

\* the cell values the calls are tried on
Values == {NaN, 0, Half, One}

Slices == UNION {[1..n -> Values] : n \in 0..MaxLen}

InitMetric ==
    /\ IdleSom
    /\ call \in {[fn |-> "distance", metric |-> m, from |-> f, to |-> t,
                  done |-> FALSE, panicked |-> FALSE, dist |-> NaN] :
                 m \in Metrics, f \in Slices, t \in Slices}

\* Metric::distance(from, to)
MetricDistance ==
    /\ call.fn = "distance"
    /\ ~call.done
    /\ call' = IF DistancePanics(call.from, call.to)
               THEN [call EXCEPT !.done = TRUE, !.panicked = TRUE]
               ELSE [call EXCEPT !.done = TRUE,
                                 !.dist = Distance(call.metric, call.from, call.to)]
    /\ UNCHANGED somVars

SpecMetric == InitMetric /\ [][MetricDistance]_vars

\* the layer lists the XYF search is tried with
NnLayerChoices ==
    { <<Cont(2, 300), Cat(1, 700)>>, <<Cat(2, 500), Cont(1, 500)>> }

\* the rows the searched tables are made of
NnRows ==
    { <<0, 0, 0>>, <<One, One, One>>, <<0, One, NaN>>, <<NaN, NaN, One>>,
      <<One, 0, 0>>, <<NaN, NaN, NaN>>, <<0, 0, One>>, <<One, NaN, 0>> }

\* DataFrame::from_rows
DfFromRows(rows) ==
    [ncols |-> Len(rows[1]), nrows |-> Len(rows),
     data |-> [i \in 1..(Len(rows) * Len(rows[1])) |->
                  rows[((i - 1) \div Len(rows[1])) + 1][((i - 1) % Len(rows[1])) + 1]]]

\* tables of 1..MaxRows rows
NnTables ==
    {DfFromRows(rows) : rows \in UNION {[1..n -> NnRows] : n \in 1..MaxRows}}

NnQueries ==
    { <<One, 0, One>>, <<NaN, NaN, 0>>, <<0, One, NaN>>,
      <<NaN, NaN, NaN>>, <<Half, NaN, One>>, <<0, 0>> }

\* the searches, each with the layers it is given
NnCalls ==
    {<<"nearest_neighbor", <<>>>>, <<"nearest_neighbor_tanimoto", <<>>>>}
        \cup {<<"nearest_neighbor_xyf", l>> : l \in NnLayerChoices}

InitNN ==
    /\ IdleSom
    /\ \E c \in NnCalls, from \in NnQueries, table \in NnTables :
          call = [fn |-> c[1], layers |-> c[2], from |-> from, table |-> table,
                  done |-> FALSE, panicked |-> FALSE, idx |-> 0, dist |-> NaN]

Finish(r) ==
    [call EXCEPT !.done = TRUE, !.panicked = r.panicked, !.idx = r.idx, !.dist = r.dist]

NearestNeighbor ==
    /\ call.fn = "nearest_neighbor"
    /\ ~call.done
    /\ call' = Finish(nearest_neighbor(call.from, call.table))
    /\ UNCHANGED somVars

NearestNeighborTanimoto ==
    /\ call.fn = "nearest_neighbor_tanimoto"
    /\ ~call.done
    /\ call' = Finish(nearest_neighbor_tanimoto(call.from, call.table))
    /\ UNCHANGED somVars

NearestNeighborXyf ==
    /\ call.fn = "nearest_neighbor_xyf"
    /\ ~call.done
    /\ call' = Finish(nearest_neighbor_xyf(call.from, call.table, call.layers))
    /\ UNCHANGED somVars

NextNN == NearestNeighbor \/ NearestNeighborTanimoto \/ NearestNeighborXyf

SpecNN == InitNN /\ [][NextNN]_vars

-----------------------------------------------------------------------------
(* Properties of the single calls (SpecMetric, SpecNN).                    *)

\* the indices at which neither operand is NaN
ValidIndices(from, to) ==
    {i \in 1..Len(from) : ~IsNaN(from[i]) /\ ~IsNaN(to[i])}

\* the valid indices at which exactly one operand is >= 0.5
Disagreeing(from, to) ==
    {i \in ValidIndices(from, to) : (from[i] >= Half) # (to[i] >= Half)}

\* the sum of the squared differences over a set of indices
RECURSIVE SumOfSquares(_, _, _)
SumOfSquares(from, to, S) ==
    IF S = {} THEN 0
    ELSE LET i == CHOOSE k \in S : TRUE
         IN  ((from[i] - to[i]) * (from[i] - to[i])) \div Scale
                 + SumOfSquares(from, to, S \ {i})

MetricCallDone == call.fn = "distance" /\ call.done /\ ~call.panicked

\* C9: Metric::distance over two slices of equal length ignores every index
\* where either operand is NaN.  Tanimoto is the number of remaining indices
\* where exactly one operand is >= 0.5, divided by the number of remaining
\* indices, and NaN when none remains; SqEuclidean is the sum of the squared
\* differences over the remaining indices (Euclidean its square root).
C9_MetricDistance ==
    MetricCallDone =>
        LET valid == ValidIndices(call.from, call.to)
            sq == SumOfSquares(call.from, call.to, valid)
        IN  CASE call.metric = "Tanimoto" ->
                    IF valid = {} THEN IsNaN(call.dist)
                    ELSE call.dist =
                            (Cardinality(Disagreeing(call.from, call.to)) * Scale)
                                \div Cardinality(valid)
              [] call.metric = "SqEuclidean" -> call.dist = sq
              [] call.metric = "Euclidean" ->
                    /\ call.dist >= 0
                    /\ call.dist * call.dist <= sq * Scale
                    /\ sq * Scale < (call.dist + 1) * (call.dist + 1)

\* a Tanimoto call with a NaN index and a fraction strictly between 0 and 1
C9_Witness ==
    /\ MetricCallDone
    /\ call.metric = "Tanimoto"
    /\ \E i \in 1..Len(call.from) : IsNaN(call.from[i]) \/ IsNaN(call.to[i])
    /\ call.dist > 0
    /\ call.dist < One

\* the first column of layer l: the widths of the layers before it
RECURSIVE SliceStart(_, _)
SliceStart(layers, l) ==
    IF l <= 1 THEN 0 ELSE SliceStart(layers, l - 1) + layers[l - 1].ncols

\* the columns of layer l in a row
LayerSlice(row, layers, l) ==
    SubSeq(row, SliceStart(layers, l) + 1, SliceStart(layers, l) + layers[l].ncols)

AllNaN(slice) == \A i \in 1..Len(slice) : IsNaN(slice[i])

\* what layer l adds to the distance between a sample and a row
LayerTerm(from, row, layers, l) ==
    LET d == Distance(IF layers[l].categorical THEN "Tanimoto" ELSE "Euclidean",
                      LayerSlice(from, layers, l), LayerSlice(row, layers, l))
    IN  IF AllNaN(LayerSlice(from, layers, l)) \/ IsNaN(d) THEN 0
        ELSE (d * layers[l].weight) \div Scale

\* the sum of the first l layers' terms
RECURSIVE WeightedSum(_, _, _, _)
WeightedSum(from, row, layers, l) ==
    IF l = 0 THEN 0
    ELSE WeightedSum(from, row, layers, l - 1) + LayerTerm(from, row, layers, l)

NnCallDone(fn) == call.fn = fn /\ call.done /\ ~call.panicked

\* C8: in nearest_neighbor_xyf the distance of a row is the sum over the
\* layers of layer.weight * layer distance, each layer's distance taken over
\* its own columns (Tanimoto if categorical, Euclidean otherwise); a layer
\* whose columns are all NaN in the sample adds nothing.  The distance
\* returned is that of the row returned.
C8_XyfWeightedSum ==
    NnCallDone("nearest_neighbor_xyf") =>
        /\ \A r \in 0..(call.table.nrows - 1) :
              XyfRowDist(call.from, DfGetRow(call.table, r), call.layers, 1, 0, 0)
                  = WeightedSum(call.from, DfGetRow(call.table, r), call.layers,
                                Len(call.layers))
        /\ call.dist = WeightedSum(call.from, DfGetRow(call.table, call.idx),
                                   call.layers, Len(call.layers))

\* an XYF search whose sample misses a whole layer and still finds a
\* positive distance from the other one
C8_Witness ==
    /\ NnCallDone("nearest_neighbor_xyf")
    /\ \E l \in 1..Len(call.layers) : AllNaN(LayerSlice(call.from, call.layers, l))
    /\ call.dist > 0
    /\ call.table.nrows > 1

\* the configured distance between the query and row r
RowDistance(r) ==
    CASE call.fn = "nearest_neighbor" ->
            Distance("SqEuclidean", call.from, DfGetRow(call.table, r))
      [] call.fn = "nearest_neighbor_tanimoto" ->
            Distance("Tanimoto", call.from, DfGetRow(call.table, r))
      [] call.fn = "nearest_neighbor_xyf" ->
            WeightedSum(call.from, DfGetRow(call.table, r), call.layers,
                        Len(call.layers))

\* C7: each of the three searches returns the index of a row whose distance
\* to the query is minimal over all rows, and the lowest such index when
\* several rows attain the minimum.  (A row whose distance is NaN is never
\* below another; it is returned only when every row's distance is NaN.)
C7_ArgminLowestIndex ==
    (\E fn \in {"nearest_neighbor", "nearest_neighbor_tanimoto",
                "nearest_neighbor_xyf"} : NnCallDone(fn)) =>
        /\ call.idx \in 0..(call.table.nrows - 1)
        /\ \A r \in 0..(call.table.nrows - 1) :
              /\ ~FLt(RowDistance(r), RowDistance(call.idx))
              /\ r < call.idx => ~FLe(RowDistance(r), RowDistance(call.idx))
              /\ IsNaN(RowDistance(call.idx)) => IsNaN(RowDistance(r))

\* a search in which the minimum is attained by the row returned and by a
\* later row, but by no earlier one
C7_Witness ==
    /\ \E fn \in {"nearest_neighbor", "nearest_neighbor_tanimoto",
                  "nearest_neighbor_xyf"} : NnCallDone(fn)
    /\ call.idx > 0
    /\ ~IsNaN(RowDistance(call.idx))
    /\ \E r \in (call.idx + 1)..(call.table.nrows - 1) :
          RowDistance(r) = RowDistance(call.idx)

-----------------------------------------------------------------------------
(* Single calls of DecayParam::get (SpecDecay).                            *)

\* the start and end values the schedules are tried with
ScheduleValues == {-Half, 0, Scale \div 100, Scale \div 10, One, 2 * One}

Schedules ==
    {Lin(s, t) : s, t \in ScheduleValues} \cup {Exp(s, t) : s, t \in ScheduleValues}

InitDecay ==
    /\ IdleSom
    /\ \E p \in Schedules, m \in 1..MaxSchedule :
          \E e \in 0..(m - 1) :
              call = [fn |-> "get", p |-> p, max_epochs |-> m, epoch |-> e,
                      done |-> FALSE, value |-> NaN]

\* DecayParam::get(epoch, max_epochs)
DecayParamGet ==
    /\ call.fn = "get"
    /\ ~call.done
    /\ call' = [call EXCEPT !.done = TRUE,
                            !.value = DecayGet(call.p, call.epoch, call.max_epochs)]
    /\ UNCHANGED somVars

SpecDecay == InitDecay /\ [][DecayParamGet]_vars

Abs(x) == IF x >= 0 THEN x ELSE -x

\* v is `target` up to the rounding of the arithmetic: one percent of the
\* larger end of the schedule plus two units
NearOf(v, target, p) ==
    /\ ~IsNaN(v)
    /\ Abs(v - target) * 100 <= Max(Abs(p.start), Abs(p.end)) + 2 * 100

DecayCallDone == call.fn = "get" /\ call.done

\* the value of the call is start + e/(max_epochs - 1) * (end - start)
OnTheLine ==
    /\ ~IsNaN(call.value)
    /\ Abs((call.value - call.p.start) * (call.max_epochs - 1)
             - call.epoch * (call.p.end - call.p.start))
          <= 2 * (call.max_epochs - 1)

\* start and end are nonzero and of the same sign
SameSign(p) == (p.start > 0 /\ p.end > 0) \/ (p.start < 0 /\ p.end < 0)

-----------------------------------------------------------------------------
(* Configurations with fewer than two epochs (Spec).                       *)

\* C12: a configuration with params.epochs < 2 is rejected: the Som is not
\* built, or its first epoch() call fails; no call returns and no train()
\* runs with an undefined schedule value.
C12_SmallEpochsRejected ==
    params.epochs < 2 =>
        /\ calls > 0 => status = "panicked"
        /\ \A n \in 1..Len(trace) :
              /\ ~IsNaN(DecayGet(params.alpha, trace[n].epoch, params.epochs))
              /\ ~IsNaN(DecayGet(params.radius, trace[n].epoch, params.epochs))

\* C13: a train() call with a sample whose length differs from dims fails
\* before it has modified any weight cell: the epoch() call that issued it
\* unwinds with the weights as they were, and no train() call with such a
\* sample ever completes.
C13_WrongLengthFailsFirst ==
    /\ [][status' = "panicked" => weights' = weights]_vars
    /\ [](\A n \in 1..Len(trace) : Len(trace[n].sample) = dims)
    /\ [](\A smp \in fed : Len(smp) = dims)

\* an epoch() call that unwound on a Som already trained for an epoch
C13_Witness ==
    /\ status = "panicked"
    /\ epoch > 0
    /\ weights # initial
    /\ fed # {}

-----------------------------------------------------------------------------
(* calc::norm: normalize and denormalize (SpecNorm).                       *)

\* enum Norm
Norms == {"Unit", "Gauss", "None"}

\* LinearTransform::transform
Transform(t, value) == FAdd(FMul(value, t.scale), t.offset)

\* LinearTransform::inverse
Inverse(t) ==
    [scale |-> FDiv(One, t.scale), offset |-> FDiv(FNeg(t.offset), t.scale)]

\* normalize, lines 59-66: the initial (p1, p2) of a column
NormParamsInit(norm) == IF norm = "Unit" THEN <<F64Max, -F64Max>> ELSE <<0, 0>>

\* normalize, lines 68-91: the cells of column i, row by row;
\* acc = [p |-> (p1, p2), count |-> number of non-NaN cells]
RECURSIVE NormParamsLoop(_, _, _, _, _)
NormParamsLoop(data, i, norm, row, acc) ==
    IF row >= data.nrows THEN acc
    ELSE \* the cell is bound once
         CHOOSE res \in
           {IF IsNaN(v) THEN NormParamsLoop(data, i, norm, row + 1, acc)
            ELSE NormParamsLoop(data, i, norm, row + 1,
                   [count |-> acc.count + 1,
                    p |-> CASE norm = "Unit" ->
                                  <<IF FLt(v, acc.p[1]) THEN v ELSE acc.p[1],
                                    IF FLt(acc.p[2], v) THEN v ELSE acc.p[2]>>
                            [] norm = "Gauss" ->
                                  <<FAdd(acc.p[1], v), FAdd(acc.p[2], FSq(v))>>
                            [] norm = "None" -> acc.p]) :
            v \in {DfGet(data, row, i)}} : TRUE

\* normalize, lines 94-123: the forward transform of a column
NormForward(norm, scale, p, count) ==
    CASE norm = "Unit" ->
            LET sc == FDiv(scale, FSub(p[2], p[1]))
            IN  [scale |-> sc, offset |-> FMul(FNeg(p[1]), sc)]
      [] norm = "Gauss" ->
            LET sd == FSqrt(FDiv(FSub(FMul(AsF64(count), p[2]), FSq(p[1])),
                                 AsF64(count * (count - 1))))
                mean == FDiv(p[1], AsF64(count))
                sc == FDiv(scale, FMul(AsF64(2), sd))
            IN  [scale |-> sc, offset |-> FMul(FNeg(FSub(mean, sd)), sc)]
      [] norm = "None" -> [scale |-> scale, offset |-> 0]

\* normalize, lines 126-136 and denormalize, lines 147-157: every row pushed
\* through the transforms, column by column
TransformRows(data, ts) ==
    [ncols |-> data.ncols, nrows |-> data.nrows,
     data |-> [k \in 1..Len(data.data) |->
                  Transform(ts[((k - 1) % data.ncols) + 1], data.data[k])]]

\* normalize: [df, denorm]
Normalize(data, norm, scale) ==
    LET fwd == [i \in 1..data.ncols |->
                  LET acc == NormParamsLoop(data, i - 1, norm[i], 0,
                                            [p |-> NormParamsInit(norm[i]), count |-> 0])
                  IN  NormForward(norm[i], scale[i], acc.p, acc.count)]
    IN  [df |-> TransformRows(data, fwd),
         denorm |-> [i \in 1..data.ncols |-> Inverse(fwd[i])]]

\* the cell values and column scales normalize is tried on
NormValues == {NaN, 0, One, 3 * One}
NormScales == {<<One, One>>, <<One, Half>>}

\* tables of two columns and 1..MaxNormRows rows
NormTables ==
    UNION {{[ncols |-> 2, nrows |-> n, data |-> d] : d \in [1..(2 * n) -> NormValues]} :
              n \in 1..MaxNormRows}

InitNorm ==
    /\ IdleSom
    /\ \E data \in NormTables, norm \in [1..2 -> Norms], scale \in NormScales :
          call = [fn |-> "normalize", data |-> data, norm |-> norm, scale |-> scale,
                  step |-> 0, df |-> DfFilled(0, 0, 0), denorm |-> <<>>,
                  back |-> DfFilled(0, 0, 0)]

\* normalize(data, norm, scale)
NormalizeCall ==
    /\ call.fn = "normalize"
    /\ call.step = 0
    /\ \E res \in {Normalize(call.data, call.norm, call.scale)} :
          call' = [call EXCEPT !.step = 1, !.df = res.df, !.denorm = res.denorm]
    /\ UNCHANGED somVars

\* denormalize(df, denorm) on what normalize returned
DenormalizeCall ==
    /\ call.fn = "normalize"
    /\ call.step = 1
    /\ call' = [call EXCEPT !.step = 2, !.back = TransformRows(call.df, call.denorm)]
    /\ UNCHANGED somVars

NextNorm == NormalizeCall \/ DenormalizeCall

SpecNorm == InitNorm /\ [][NextNorm]_vars

\* the non-NaN values of column c (counted from 0)
ColumnValues(df, c) ==
    {DfGet(df, r, c) : r \in 0..(df.nrows - 1)} \ {NaN}

NoNaN(df) == \A k \in 1..Len(df.data) : ~IsNaN(df.data[k])

\* v is w up to the rounding of the arithmetic: one percent of the largest
\* cell value
NearCell(v, w) == ~IsNaN(v) /\ Abs(v - w) * 100 <= 3 * One

RoundTripDone == call.fn = "normalize" /\ call.step = 2

\* C14: for a table without NaN and any choice of Unit, Gauss or None per
\* column, denormalize applied to the table and the transforms returned by
\* normalize gives back the original value in every cell.
C14_NormalizeRoundTrip ==
    (RoundTripDone /\ NoNaN(call.data)) =>
        /\ call.back.nrows = call.data.nrows
        /\ call.back.ncols = call.data.ncols
        /\ \A k \in 1..Len(call.data.data) : NearCell(call.back.data[k], call.data.data[k])

Finite(x) == ~IsNaN(x) /\ ~IsInf(x)

\* C15: when the non-NaN values of a column normalized with Unit are all
\* equal, normalize uses the identity for the column (scale = 1, offset = 0):
\* the normalized values are the original ones and the returned inverse
\* transform is finite.
C15_DegenerateUnitIsIdentity ==
    (call.fn = "normalize" /\ call.step >= 1) =>
        \A c \in 0..(call.data.ncols - 1) :
            (call.norm[c + 1] = "Unit" /\ Cardinality(ColumnValues(call.data, c)) = 1) =>
                /\ \A r \in 0..(call.data.nrows - 1) :
                      DfGet(call.df, r, c) = DfGet(call.data, r, c)
                /\ Finite(call.denorm[c + 1].scale)
                /\ Finite(call.denorm[c + 1].offset)

-----------------------------------------------------------------------------
(* data::DataFrame with its names: construction, push_row, push_row_iter   *)
(* and set (SpecFrame).                                                    *)

\* the column lists frames are built with
NameLists == {<<>>, <<"A">>, <<"A", "B">>}

\* the row of n cells 1.0, 2.0, ..
RowOfLen(n) == [i \in 1..n |-> AsF64(i)]

\* the rows handed to from_rows, push_row and push_row_iter
FrameRows == {RowOfLen(n) : n \in 0..3}

RECURSIVE Flatten(_)
Flatten(rows) == IF Len(rows) = 0 THEN <<>> ELSE Head(rows) \o Flatten(Tail(rows))

\* DataFrame::empty
FrameEmpty(columns) ==
    [names |-> columns, ncols |-> Len(columns), nrows |-> 0, data |-> <<>>]

\* DataFrame::filled
FrameFilled(n, columns, fill) ==
    [names |-> columns, ncols |-> Len(columns), nrows |-> n,
     data |-> [i \in 1..(n * Len(columns)) |-> fill]]

\* DataFrame::from_rows panics on an empty list of rows and when the first
\* row is not as long as the column list
FromRowsPanics(columns, rows) == Len(rows) = 0 \/ Len(columns) # Len(rows[1])

\* DataFrame::from_rows
FrameFromRows(columns, rows) ==
    [names |-> columns, ncols |-> Len(rows[1]), nrows |-> Len(rows),
     data |-> Flatten(rows)]

\* the frames that can be constructed
Constructed ==
    {FrameEmpty(c) : c \in NameLists}
        \cup {FrameFilled(n, c, 0) : n \in 0..1, c \in NameLists}
        \cup {FrameFromRows(a[1], a[2]) :
                 a \in {b \in NameLists \X UNION {[1..n -> FrameRows] : n \in 1..2} :
                            ~FromRowsPanics(b[1], b[2])}}

InitFrame ==
    /\ IdleSom
    /\ \E df \in Constructed :
          call = [fn |-> "frame", df |-> df, panicked |-> FALSE, op |-> "new"]

FrameLive == call.fn = "frame" /\ ~call.panicked

\* DataFrame::push_row(row)
PushRow(row) ==
    /\ FrameLive
    /\ call.df.nrows < MaxFrameRows
    /\ call' = IF Len(row) # call.df.ncols
               THEN [call EXCEPT !.panicked = TRUE, !.op = "push_row"]
               ELSE [call EXCEPT !.op = "push_row",
                                 !.df.data = call.df.data \o row,
                                 !.df.nrows = call.df.nrows + 1]
    /\ UNCHANGED somVars

\* DataFrame::push_row_iter(row)
PushRowIter(row) ==
    /\ FrameLive
    /\ call.df.nrows < MaxFrameRows
    /\ call' = [call EXCEPT !.op = "push_row_iter",
                            !.df.data = call.df.data \o row,
                            !.df.nrows = call.df.nrows + 1]
    /\ UNCHANGED somVars

\* DataFrame::set(row, col, value): the index is only checked against the
\* length of data
FrameSet(row, col, value) ==
    /\ FrameLive
    /\ LET idx == row * call.df.ncols + col
       IN  call' = IF idx >= Len(call.df.data)
                   THEN [call EXCEPT !.panicked = TRUE, !.op = "set"]
                   ELSE [call EXCEPT !.op = "set", !.df.data[idx + 1] = value]
    /\ UNCHANGED somVars

NextFrame ==
    \/ \E row \in FrameRows : PushRow(row)
    \/ \E row \in FrameRows : PushRowIter(row)
    \/ \E row \in 0..1, col \in 0..2 : FrameSet(row, col, 0)

SpecFrame == InitFrame /\ [][NextFrame]_vars

\* C16: every data frame built by empty, filled or from_rows and changed by
\* push_row, push_row_iter and set has names.len() = ncols and
\* data.len() = nrows * ncols, and its nrows never decreases.
C16_FrameInvariants ==
    /\ [](call.fn = "frame" =>
             /\ Len(call.df.names) = call.df.ncols
             /\ Len(call.df.data) = call.df.nrows * call.df.ncols)
    /\ [][call.fn = "frame" => call'.df.nrows >= call.df.nrows]_vars

-----------------------------------------------------------------------------
(* proc::Processor (SpecProc): read_file over a replayable row source,     *)
(* create_som, to_class, to_denormalized and write_data_nearest.           *)
(* A CSV cell is a string; a column name or a label is a sequence of       *)
(* tokens, so that "c" + ":" + "a" is <<"c", ":", "a">>.                   *)

\* the most records of a row source
MaxRecords == 3

\* the cell strings in ascending byte order (Ord for String)
ByteOrder == <<"0", "2", "?", "NA", "a", "b">>

Rank(s) == CHOOSE i \in 1..Len(ByteOrder) : ByteOrder[i] = s

\* the levels in descending order
RECURSIVE SortLevelsDescending(_)
SortLevelsDescending(levels) ==
    IF levels = {} THEN <<>>
    ELSE LET m == CHOOSE x \in levels : \A y \in levels : Rank(x) >= Rank(y)
         IN  <<m>> \o SortLevelsDescending(levels \ {m})

\* read_file, lines 280-288: the HashSet of levels as a sorted vector
RECURSIVE SortLevels(_)
SortLevels(levels) ==
    IF levels = {} THEN <<>>
    ELSE LET m == CHOOSE x \in levels : \A y \in levels : Rank(x) <= Rank(y)
         IN  <<m>> \o SortLevels(levels \ {m})

\* str::parse::<f64> of a cell
ParseF64(str) ==
    CASE str = "0" -> Some(0)
      [] str = "2" -> Some(2 * One)
      [] OTHER -> None

\* Iterator::position, counted from 0; -1 for None
Position(seq, n) ==
    IF \E i \in 1..Len(seq) : seq[i] = n
    THEN (CHOOSE i \in 1..Len(seq) : seq[i] = n /\ \A j \in 1..(i - 1) : seq[j] # n) - 1
    ELSE -1

\* InputLayer::new; its two asserts make a panicking call no layer at all
InputLayer(names, weight, is_class, norm, scale) ==
    [names |-> names, weight |-> weight, is_class |-> is_class, norm |-> norm,
     scale |-> UnwrapOr(scale, One)]

\* InputLayer::cat
InputLayerCat(name, weight) ==
    [names |-> <<name>>, weight |-> weight, is_class |-> TRUE, norm |-> "None",
     scale |-> One]

\* InputLayer::cont
InputLayerCont(names, weight, norm, scale) ==
    [names |-> names, weight |-> weight, is_class |-> FALSE, norm |-> norm,
     scale |-> UnwrapOr(scale, One)]

\* read_file, lines 243-257: the header positions of a layer's columns
LayerIndices(header, lay) ==
    [k \in 1..Len(lay.names) |-> Position(header, lay.names[k])]

\* read_file, lines 266-288: the sorted distinct non-missing values of a
\* categorical layer; no levels for a continuous one
CatLevels(lay, header, records, no_data) ==
    IF ~lay.is_class THEN <<>>
    ELSE SortLevels({records[r][LayerIndices(header, lay)[1] + 1] :
                        r \in 1..Len(records)} \ {no_data})

\* read_file, lines 256 and 290-295: num_columns of a layer
NumColumns(lay, levels) == IF Len(levels) > 0 THEN Len(levels) ELSE Len(lay.names)

RECURSIVE SumWeights(_, _)
SumWeights(input_layers, l) ==
    IF l > Len(input_layers) THEN 0
    ELSE FAdd(input_layers[l].weight, SumWeights(input_layers, l + 1))

\* read_file, lines 297-315: the layer definitions
ProcLayers(input_layers, cat_levels) ==
    LET weight_scale == FDiv(One, SumWeights(input_layers, 1))
    IN  [l \in 1..Len(input_layers) |->
            Layer(NumColumns(input_layers[l], cat_levels[l]),
                  FMul(weight_scale, input_layers[l].weight),
                  input_layers[l].is_class)]

\* read_file, lines 302-314: the column names of the table
RECURSIVE ColNames(_, _, _)
ColNames(input_layers, cat_levels, l) ==
    IF l > Len(input_layers) THEN <<>>
    ELSE (IF input_layers[l].is_class
          THEN [k \in 1..Len(cat_levels[l]) |->
                   <<input_layers[l].names[1], ":", cat_levels[l][k]>>]
          ELSE [k \in 1..Len(input_layers[l].names) |-> <<input_layers[l].names[k]>>])
         \o ColNames(input_layers, cat_levels, l + 1)

\* read_file, lines 346-396: the cells of one record written into `row`,
\* layer by layer; a write past the end of row and a cell that does not
\* parse both panic.  c = [input_layers, layers, cat_levels, header, no_data]
RECURSIVE FillRow(_, _, _, _, _)
FillRow(c, rec, l, start, row) ==
    IF l > Len(c.input_layers) THEN [panicked |-> FALSE, row |-> row]
    ELSE LET inp == c.input_layers[l]
             indices == LayerIndices(c.header, inp)
             levels == c.cat_levels[l]
             next == start + c.layers[l].ncols
         IN  IF inp.is_class
             THEN LET v == rec[indices[1] + 1]
                      pos == Position(levels, v)
                  IN  IF v = c.no_data
                      THEN IF start + Len(levels) > Len(row)
                           THEN [panicked |-> TRUE, row |-> row]
                           ELSE FillRow(c, rec, l + 1, next,
                                  [i \in 1..Len(row) |->
                                      IF i > start /\ i <= start + Len(levels)
                                      THEN NaN ELSE row[i]])
                      ELSE IF pos < 0 \/ start + pos >= Len(row)
                           THEN [panicked |-> TRUE, row |-> row]
                           ELSE FillRow(c, rec, l + 1, next,
                                        [row EXCEPT ![start + pos + 1] = One])
             ELSE IF \E i \in 1..Len(indices) :
                        \/ start + i - 1 >= Len(row)
                        \/ /\ rec[indices[i] + 1] # c.no_data
                           /\ ~ParseF64(rec[indices[i] + 1]).some
                  THEN [panicked |-> TRUE, row |-> row]
                  ELSE FillRow(c, rec, l + 1, next,
                         [i \in 1..Len(row) |->
                             IF i > start /\ i <= start + Len(indices)
                             THEN IF rec[indices[i - start] + 1] = c.no_data
                                  THEN NaN
                                  ELSE ParseF64(rec[indices[i - start] + 1]).v
                             ELSE row[i]])

\* read_file, lines 400-407: one norm and one scale per column of a layer
RECURSIVE PerColumn(_, _, _, _)
PerColumn(input_layers, cat_levels, field, l) ==
    IF l > Len(input_layers) THEN <<>>
    ELSE [k \in 1..NumColumns(input_layers[l], cat_levels[l]) |->
             IF field = "norm" THEN input_layers[l].norm ELSE input_layers[l].scale]
         \o PerColumn(input_layers, cat_levels, field, l + 1)

ProcPanic == [panicked |-> TRUE]

\* Processor::read_file without a label column.  The records of the source
\* are as long as the header.  normalize iterates over the rows in chunks
\* of ncols, which panics for a table without columns.
ReadFile(input_layers, preserve_columns, header, records, no_data) ==
    IF \/ \E l \in 1..Len(input_layers) : \E k \in 1..Len(input_layers[l].names) :
              Position(header, input_layers[l].names[k]) < 0
       \/ \E k \in 1..Len(preserve_columns) : Position(header, preserve_columns[k]) < 0
    THEN ProcPanic
    ELSE LET cat_levels == [l \in 1..Len(input_layers) |->
                               CatLevels(input_layers[l], header, records, no_data)]
             layers == ProcLayers(input_layers, cat_levels)
             colnames == ColNames(input_layers, cat_levels, 1)
             c == [input_layers |-> input_layers, layers |-> layers,
                   cat_levels |-> cat_levels, header |-> header, no_data |-> no_data]
             rows == [r \in 1..Len(records) |->
                         FillRow(c, records[r], 1, 0, [i \in 1..Len(colnames) |-> 0])]
             norm == PerColumn(input_layers, cat_levels, "norm", 1)
             scale == PerColumn(input_layers, cat_levels, "scale", 1)
         IN  IF \E r \in 1..Len(rows) : rows[r].panicked THEN ProcPanic
             ELSE IF Len(colnames) = 0 THEN ProcPanic
             ELSE LET df == [ncols |-> Len(colnames), nrows |-> Len(rows),
                             data |-> Flatten([r \in 1..Len(rows) |-> rows[r].row])]
                      res == Normalize(df, norm, scale)
                  IN  [panicked |-> FALSE,
                       input_layers |-> input_layers,
                       data |-> [names |-> colnames, ncols |-> df.ncols,
                                 nrows |-> df.nrows, data |-> res.df.data],
                       layers |-> layers,
                       preserve_columns |-> preserve_columns,
                       preserved |-> [k \in 1..Len(preserve_columns) |->
                                        [r \in 1..Len(records) |->
                                            records[r][Position(header, preserve_columns[k]) + 1]]],
                       norm |-> norm, denorm |-> res.denorm, scale |-> scale,
                       no_data |-> no_data]

\* str::splitn(2, ':'): the tokens before the first ":" and, when there is
\* one, the tokens after it
SplitN2(name) ==
    LET p == Position(name, ":")
    IN  IF p < 0 THEN <<name>>
        ELSE <<SubSeq(name, 1, p), SubSeq(name, p + 2, Len(name))>>

\* to_class, lines 476-488: the scan of row[start_col..end] from
\* (v_max, idx_max, any) = (f64::MIN, 0, false)
RECURSIVE ClassScan(_, _, _, _, _, _)
ClassScan(row, i, end, v_max, idx_max, any) ==
    IF i >= end THEN [idx_max |-> idx_max, any |-> any]
    ELSE IF IsNaN(row[i + 1]) THEN ClassScan(row, i + 1, end, v_max, idx_max, any)
    ELSE IF FLt(v_max, row[i + 1])
         THEN ClassScan(row, i + 1, end, row[i + 1], i, TRUE)
         ELSE ClassScan(row, i + 1, end, v_max, idx_max, TRUE)

\* what to_class, to_denormalized and write_data_nearest hand back:
\* "ok", "err" (DataTypeError) or "panic"
Outcome(st, name, labels, df) ==
    [status |-> st, name |-> name, labels |-> labels, df |-> df]

NoFrame == [names |-> <<>>, ncols |-> 0, nrows |-> 0, data |-> <<>>]

\* Processor::to_class(som, data, layer_index) for the Som of the state.
\* Slices and indices out of range, a column name without ':' and
\* idx_max - start_col below zero panic.
ToClass(proc, data, layer_index) ==
    IF ~proc.input_layers[layer_index + 1].is_class
    THEN Outcome("err", <<>>, <<>>, NoFrame)
    ELSE LET layer == proc.layers[layer_index + 1]
             start_col == params.start_columns[layer_index + 1]
             end == start_col + layer.ncols
             classes == [k \in 1..layer.ncols |-> SplitN2(weights.names[start_col + k])[2]]
             scans == [r \in 1..data.nrows |->
                          ClassScan(DfGetRow(data, r - 1), start_col, end, -F64Max, 0, FALSE)]
         IN  IF \/ end > Len(weights.names)
                \/ \E k \in 1..layer.ncols : Len(SplitN2(weights.names[start_col + k])) < 2
                \/ start_col >= Len(proc.data.names)
                \/ data.ncols = 0
                \/ data.nrows > 0 /\ end > data.ncols
             THEN Outcome("panic", <<>>, <<>>, NoFrame)
             ELSE IF \E r \in 1..data.nrows :
                        scans[r].any /\ scans[r].idx_max < start_col
             THEN Outcome("panic", <<>>, <<>>, NoFrame)
             ELSE Outcome("ok", SplitN2(proc.data.names[start_col + 1])[1],
                          [r \in 1..data.nrows |->
                              IF scans[r].any
                              THEN classes[scans[r].idx_max - start_col + 1]
                              ELSE <<proc.no_data>>],
                          NoFrame)

\* Processor::to_denormalized(som, data, layer_index) with
\* denormalize_columns, for the Som of the state
ToDenormalized(proc, data, layer_index) ==
    LET layer == proc.layers[layer_index + 1]
        start_col == params.start_columns[layer_index + 1]
        end == start_col + layer.ncols
    IN  IF \/ end > Len(proc.denorm)
           \/ end > Len(data.names)
           \/ data.ncols = 0
           \/ data.nrows > 0 /\ end > data.ncols
        THEN Outcome("panic", <<>>, <<>>, NoFrame)
        ELSE Outcome("ok", <<>>, <<>>,
                 [names |-> SubSeq(data.names, start_col + 1, end),
                  ncols |-> layer.ncols,
                  nrows |-> data.nrows,
                  data |-> Flatten([r \in 1..data.nrows |->
                              [k \in 1..layer.ncols |->
                                  Transform(proc.denorm[start_col + k],
                                            DfGet(data, r - 1, start_col + k - 1))]])])

\* Processor::nearest_unit(som, data) for the Som of the state
NearestUnit(proc, data) ==
    IF weights.names # data.names \/ data.ncols = 0
    THEN [panicked |-> TRUE, nearest |-> <<>>]
    ELSE LET nn == [r \in 1..data.nrows |->
                       nearest_neighbor_xyf(DfGetRow(data, r - 1), weights, proc.layers)]
         IN  [panicked |-> \E r \in 1..data.nrows : nn[r].panicked,
              nearest |-> nn]

\* the cells of a written record: a string of tokens, or the Display form
\* of an f64 or of a usize
StrCell(tokens) == [kind |-> "str", str |-> tokens, num |-> 0]
F64Cell(v) == [kind |-> "f64", str |-> <<>>, num |-> v]
UsizeCell(n) == [kind |-> "usize", str |-> <<>>, num |-> n]

\* write_data_nearest, lines 610-620: the decoded layers, to_class for a
\* categorical layer and to_denormalized for any other
Decoded(proc, data) ==
    [l \in 1..Len(params.layers) |->
        IF params.layers[l].categorical
        THEN ToClass(proc, data, l - 1)
        ELSE ToDenormalized(proc, data, l - 1)]

\* write_data_nearest, lines 607-627: the header
RECURSIVE DecodedNames(_, _)
DecodedNames(decoded, l) ==
    IF l > Len(decoded) THEN <<>>
    ELSE (IF params.layers[l].categorical
          THEN <<decoded[l].name>>
          ELSE decoded[l].df.names) \o DecodedNames(decoded, l + 1)

\* write_data_nearest, lines 643-665: the cells of the layers of record
\* `index` written into `row` at start_col + offset_preserved
RECURSIVE WriteLayers(_, _, _, _, _)
WriteLayers(proc, decoded, index, l, row) ==
    IF l > Len(params.layers) THEN [panicked |-> FALSE, row |-> row]
    ELSE LET at == params.start_columns[l] + Len(proc.preserve_columns)
         IN  IF params.layers[l].categorical
             THEN IF at >= Len(row) THEN [panicked |-> TRUE, row |-> row]
                  ELSE WriteLayers(proc, decoded, index, l + 1,
                          [row EXCEPT ![at + 1] = StrCell(decoded[l].labels[index + 1])])
             ELSE LET df == decoded[l].df
                  IN  IF at + df.ncols > Len(row) THEN [panicked |-> TRUE, row |-> row]
                      ELSE WriteLayers(proc, decoded, index, l + 1,
                              [i \in 1..Len(row) |->
                                  IF i > at /\ i <= at + df.ncols
                                  THEN IF IsNaN(DfGet(df, index, i - at - 1))
                                       THEN StrCell(<<proc.no_data>>)
                                       ELSE F64Cell(DfGet(df, index, i - at - 1))
                                  ELSE row[i]])

\* write_data_nearest, lines 639-675: the records from `index` on; `row` is
\* one vector reused for every record
RECURSIVE WriteRecords(_, _, _, _, _, _, _)
WriteRecords(proc, decoded, nearest, nrec, index, row, written) ==
    IF index >= nrec THEN [panicked |-> FALSE, rows |-> written]
    ELSE LET offset == Len(row) - 3
             kept == [i \in 1..Len(row) |->
                         IF i <= Len(proc.preserved)
                         THEN StrCell(<<proc.preserved[i][index + 1]>>)
                         ELSE row[i]]
             lay == WriteLayers(proc, decoded, index, 1, kept)
             near == nearest[index + 1].idx
             rc == ToRowCol(near)
             full == [i \in 1..Len(row) |->
                         CASE i = offset + 1 -> UsizeCell(near)
                           [] i = offset + 2 -> UsizeCell(rc[1])
                           [] i = offset + 3 -> UsizeCell(rc[2])
                           [] OTHER -> lay.row[i]]
         IN  IF lay.panicked THEN [panicked |-> TRUE, rows |-> written]
             ELSE WriteRecords(proc, decoded, nearest, nrec, index + 1, full,
                               Append(written, full))

\* Processor::write_data_nearest(som, data, path) for the Som of the state:
\* [status, names, rows], the header and the records handed to the writer
WriteDataNearest(proc, data) ==
    LET nn == NearestUnit(proc, data)
        decoded == Decoded(proc, data)
        names == [k \in 1..Len(proc.preserve_columns) |-> <<proc.preserve_columns[k]>>]
                    \o DecodedNames(decoded, 1)
                    \o <<<<"som_index">>, <<"som_row">>, <<"som_col">>>>
        recs == WriteRecords(proc, decoded, nn.nearest, data.nrows, 0,
                             [i \in 1..Len(names) |-> StrCell(<<>>)], <<>>)
    IN  IF nn.panicked \/ \E l \in 1..Len(decoded) : decoded[l].status # "ok"
        THEN [status |-> "panic", names |-> <<>>, rows |-> <<>>]
        ELSE [status |-> IF recs.panicked THEN "panic" ELSE "ok",
              names |-> names, rows |-> recs.rows]

\* write_som_units, lines 525-540: per layer of the Som, [den, cls]: the
\* denormalized weights (for every layer when class_values is set, for the
\* continuous ones otherwise) and the class labels of a categorical layer
UnitsDecoded(proc, class_values) ==
    [l \in 1..Len(params.layers) |->
        [den |-> IF class_values \/ ~params.layers[l].categorical
                 THEN ToDenormalized(proc, weights, l - 1)
                 ELSE Outcome("-", <<>>, <<>>, NoFrame),
         cls |-> IF params.layers[l].categorical
                 THEN ToClass(proc, weights, l - 1)
                 ELSE Outcome("-", <<>>, <<>>, NoFrame)]]

\* write_som_units, lines 528-540: the names after index, row, col
RECURSIVE UnitsNames(_, _)
UnitsNames(decoded, l) ==
    IF l > Len(decoded) THEN <<>>
    ELSE (IF decoded[l].den.status = "ok" THEN decoded[l].den.df.names ELSE <<>>)
         \o (IF decoded[l].cls.status = "ok" THEN <<decoded[l].cls.name>> ELSE <<>>)
         \o UnitsNames(decoded, l + 1)

\* write_som_units, lines 555-578: the cells of the layers of unit `index`
\* written into `row`: the denormalized weights at offset + start_col + i,
\* the label at offset + offset_2 + start_col, where offset = 3
RECURSIVE UnitsLayers(_, _, _, _)
UnitsLayers(decoded, index, l, row) ==
    IF l > Len(params.layers) THEN [panicked |-> FALSE, row |-> row]
    ELSE LET at == 3 + params.start_columns[l]
             df == decoded[l].den.df
             offset_2 == IF decoded[l].den.status = "ok" THEN df.ncols ELSE 0
             withden == [i \in 1..Len(row) |->
                            IF decoded[l].den.status = "ok" /\ i > at /\ i <= at + df.ncols
                            THEN F64Cell(DfGet(df, index, i - at - 1))
                            ELSE row[i]]
         IN  IF decoded[l].den.status = "ok" /\ at + df.ncols > Len(row)
             THEN [panicked |-> TRUE, row |-> row]
             ELSE IF ~params.layers[l].categorical
             THEN UnitsLayers(decoded, index, l + 1, withden)
             ELSE IF at + offset_2 >= Len(row) THEN [panicked |-> TRUE, row |-> row]
             ELSE UnitsLayers(decoded, index, l + 1,
                     [withden EXCEPT ![at + offset_2 + 1] =
                         StrCell(decoded[l].cls.labels[index + 1])])

\* write_som_units, lines 547-581: the records from unit `index` on; `row`
\* is one vector reused for every record
RECURSIVE UnitsRecords(_, _, _, _)
UnitsRecords(decoded, index, row, written) ==
    IF index >= weights.nrows THEN [panicked |-> FALSE, rows |-> written]
    ELSE LET rc == ToRowCol(index)
             head == [i \in 1..Len(row) |->
                         CASE i = 1 -> UsizeCell(index)
                           [] i = 2 -> UsizeCell(rc[1])
                           [] i = 3 -> UsizeCell(rc[2])
                           [] OTHER -> row[i]]
             lay == UnitsLayers(decoded, index, 1, head)
         IN  IF lay.panicked THEN [panicked |-> TRUE, rows |-> written]
             ELSE UnitsRecords(decoded, index + 1, lay.row, Append(written, lay.row))

\* Processor::write_som_units(som, path, class_values) for the Som of the
\* state: [status, names, rows], the header and the records handed to the
\* writer
WriteSomUnits(proc, class_values) ==
    LET decoded == UnitsDecoded(proc, class_values)
        names == <<<<"index">>, <<"row">>, <<"col">>>> \o UnitsNames(decoded, 1)
        recs == UnitsRecords(decoded, 0, [i \in 1..Len(names) |-> StrCell(<<>>)], <<>>)
    IN  IF \E l \in 1..Len(decoded) :
               decoded[l].den.status = "panic" \/ decoded[l].cls.status = "panic"
        THEN [status |-> "panic", names |-> <<>>, rows |-> <<>>]
        ELSE [status |-> IF recs.panicked THEN "panic" ELSE "ok",
              names |-> names, rows |-> recs.rows]

\* the header and the records of the row sources
ProcHeader == <<"c", "x">>
RecordRows ==
    {<<c, x>> : c \in {"NA", "a", "b"}, x \in {"NA", "2"}} \cup {<<"a", "?">>}
Sources == UNION {[1..n -> RecordRows] : n \in 0..MaxRecords}

\* the layer definitions and preserved columns the builder is given
ProcChoices ==
    {[input_layers |-> <<InputLayerCat("c", One)>>, preserve |-> <<>>],
     [input_layers |-> <<InputLayerCont(<<"x">>, One, "None", Some(Half))>>,
      preserve |-> <<"c">>],
     [input_layers |-> <<InputLayerCat("c", One),
                         InputLayerCont(<<"x">>, One, "None", None)>>,
      preserve |-> <<>>],
     [input_layers |-> <<InputLayerCont(<<"x">>, One, "None", None),
                         InputLayerCat("c", One)>>,
      preserve |-> <<"x">>],
     [input_layers |-> <<InputLayer(<<"c">>, One, TRUE, "None", Some(2 * One))>>,
      preserve |-> <<>>]}

\* no call of the Processor made yet
NoOut == [op |-> "-", layer |-> 0, data |-> NoFrame, class_values |-> FALSE, res |-> Outcome("-", <<>>, <<>>, NoFrame),
          written |-> [status |-> "-", names |-> <<>>, rows |-> <<>>]]

\* a ProcessorBuilder with its layers, preserved columns and the default
\* no-data token, and the source it is about to read
InitProc ==
    /\ IdleSom
    /\ \E p \in ProcChoices, records \in Sources :
          call = [fn |-> "proc", step |-> "new",
                  input_layers |-> p.input_layers, preserve |-> p.preserve,
                  header |-> ProcHeader, records |-> records, no_data |-> "NA",
                  proc |-> ProcPanic, out |-> NoOut]

\* ProcessorBuilder::build_from_file
BuildFromFile ==
    /\ call.fn = "proc" /\ call.step = "new"
    /\ \E proc \in {ReadFile(call.input_layers, call.preserve, call.header,
                             call.records, call.no_data)} :
          call' = [call EXCEPT !.proc = proc,
                               !.step = IF proc.panicked THEN "panicked" ELSE "built"]
    /\ UNCHANGED somVars

\* Processor::create_som(nrows, ncols, ..): Som::new on the names of the
\* data and SomParams::xyf on the layers
CreateSom(nr, nc, seed) ==
    /\ call.fn = "proc" /\ call.step = "built"
    /\ dims' = Len(call.proc.data.names)
    /\ nrows' = nr
    /\ ncols' = nc
    /\ weights' = InitWeights(FrameFilled(nr * nc, call.proc.data.names, 0), seed)
    /\ initial' = InitWeights(FrameFilled(nr * nc, call.proc.data.names, 0), seed)
    /\ distances_matrix' = CalcDistanceMatix(nr, nc)
    /\ params' = SomParamsXyf(2, "Gauss", Lin(One, 0), Lin(One, 0), Lin(One, One),
                              call.proc.layers)
    /\ call' = [call EXCEPT !.step = "som"]
    /\ UNCHANGED <<epoch, status, calls, somes, returned, trace, fed>>

\* the one-row tables of n columns to_class is tried on, besides the
\* weights of the Som
ClassTables(n) ==
    {[ncols |-> n, nrows |-> 1, data |-> d] : d \in [1..n -> {NaN, One, -F64Max}]}

\* Processor::to_class(som, data, layer_index)
ToClassCall(data, layer_index) ==
    /\ call.fn = "proc" /\ call.step = "som"
    /\ call' = [call EXCEPT !.step = "done",
                            !.out = [NoOut EXCEPT !.op = "to_class", !.layer = layer_index,
                                                  !.data = data,
                                                  !.res = ToClass(call.proc, data, layer_index)]]
    /\ UNCHANGED somVars

\* Processor::to_denormalized(som, data, layer_index)
ToDenormalizedCall(data, layer_index) ==
    /\ call.fn = "proc" /\ call.step = "som"
    /\ call' = [call EXCEPT !.step = "done",
                            !.out = [NoOut EXCEPT !.op = "to_denormalized",
                                                  !.layer = layer_index, !.data = data,
                                                  !.res = ToDenormalized(call.proc, data,
                                                                         layer_index)]]
    /\ UNCHANGED somVars

\* Processor::write_data_nearest(som, data, path)
WriteDataNearestCall(data) ==
    /\ call.fn = "proc" /\ call.step = "som"
    /\ call' = [call EXCEPT !.step = "done",
                            !.out = [NoOut EXCEPT !.op = "write_data_nearest",
                                                  !.data = data,
                                                  !.written = WriteDataNearest(call.proc, data)]]
    /\ UNCHANGED somVars

\* Processor::write_som_units(som, path, class_values)
WriteSomUnitsCall(class_values) ==
    /\ call.fn = "proc" /\ call.step = "som"
    /\ call' = [call EXCEPT !.step = "done",
                            !.out = [NoOut EXCEPT !.op = "write_som_units",
                                                  !.class_values = class_values,
                                                  !.written = WriteSomUnits(call.proc,
                                                                            class_values)]]
    /\ UNCHANGED somVars

NextProc ==
    \/ BuildFromFile
    \/ \E nr \in 1..2 : CreateSom(nr, 2, 1)
    \/ /\ call.step = "som"
       /\ \E data \in ClassTables(weights.ncols) \cup {weights},
             layer_index \in 0..(Len(call.input_layers) - 1) :
                 ToClassCall(data, layer_index)
    \/ /\ call.step = "som"
       /\ \E data \in {weights, call.proc.data},
             layer_index \in 0..(Len(call.input_layers) - 1) :
                 ToDenormalizedCall(data, layer_index)
    \/ /\ call.step = "som"
       /\ WriteDataNearestCall(call.proc.data)
    \/ \E class_values \in BOOLEAN : WriteSomUnitsCall(class_values)

SpecProc == InitProc /\ [][NextProc]_vars

\* the Processor has been built
Built == call.fn = "proc" /\ call.step \in {"built", "som", "done"}

\* the distinct non-missing values of the column of categorical input layer l
LevelSet(l) ==
    {call.records[r][Position(call.header, call.input_layers[l].names[1]) + 1] :
        r \in 1..Len(call.records)} \ {call.no_data}

\* the place of value v in the ascending list of a set of levels, from 0
PlaceOf(v, levels) == Cardinality({w \in levels : Rank(w) < Rank(v)})

\* the block of input layer l in the table: its width and its first column
BlockWidth(l) ==
    IF call.input_layers[l].is_class THEN Cardinality(LevelSet(l))
    ELSE Len(call.input_layers[l].names)

RECURSIVE BlockStart(_)
BlockStart(l) == IF l = 1 THEN 0 ELSE BlockStart(l - 1) + BlockWidth(l - 1)

\* the block of layer l in row r holds `hot` at the place of the row's level
\* and 0 elsewhere, or NaN everywhere when the cell is the no-data token
OneHot(r, l, hot) ==
    LET cell == call.records[r][Position(call.header, call.input_layers[l].names[1]) + 1]
    IN  \A k \in 0..(BlockWidth(l) - 1) :
           LET v == DfGet(call.proc.data, r - 1, BlockStart(l) + k)
           IN  IF cell = call.no_data THEN IsNaN(v)
               ELSE IF k = PlaceOf(cell, LevelSet(l)) THEN v = hot
               ELSE v = 0

\* C17 (as amended): in the data frame of a built Processor there is one
\* row per record, and for every row and every categorical input layer the
\* layer's block holds the layer's scale factor (1 for scale 1.0, the
\* default) at the place of the row's level in the ascending list of the
\* layer's distinct non-missing values and 0 elsewhere, or NaN in every
\* column of the block when the cell is the no-data token.
C17_OneHotBlockScaled ==
    Built =>
        /\ call.proc.data.nrows = Len(call.records)
        /\ \A r \in 1..Len(call.records), l \in 1..Len(call.input_layers) :
              call.input_layers[l].is_class => OneHot(r, l, call.input_layers[l].scale)

\* a table of a layer with two levels whose first record holds the second
\* level, whose second record the first level and whose third a missing
\* cell
C17_Witness ==
    /\ Built
    /\ Len(call.records) = 3
    /\ \E l \in 1..Len(call.input_layers) :
          /\ call.input_layers[l].is_class
          /\ <<call.records[1][1], call.records[2][1], call.records[3][1]>>
                = <<"b", "a", "NA">>
          /\ DfGet(call.proc.data, 0, BlockStart(l)) = 0
          /\ DfGet(call.proc.data, 0, BlockStart(l) + 1) = call.input_layers[l].scale
          /\ DfGet(call.proc.data, 1, BlockStart(l)) = call.input_layers[l].scale
          /\ IsNaN(DfGet(call.proc.data, 2, BlockStart(l) + 1))

\* C17 (as stated): the block holds exactly one 1 at the place of the row's
\* level and 0 elsewhere, or NaN in every column.
C17_OneHotBlock ==
    Built =>
        \A r \in 1..Len(call.records), l \in 1..Len(call.input_layers) :
            call.input_layers[l].is_class => OneHot(r, l, One)

\* a to_class call on categorical layer call.out.layer has come back
ClassCalled ==
    /\ call.fn = "proc" /\ call.step = "done" /\ call.out.op = "to_class"
    /\ call.input_layers[call.out.layer + 1].is_class

\* the level whose place in the ascending list of levels of layer l is k
LevelAt(l, k) == CHOOSE v \in LevelSet(l) : PlaceOf(v, LevelSet(l)) = k

\* the label of a row for layer l: the level of the first column of the
\* layer's slice that holds the largest non-NaN value, the no-data token
\* when the slice holds NaN only
ExpectedLabel(row, l) ==
    LET slice == LayerSlice(row, call.proc.layers, l)
        valid == {k \in 1..Len(slice) : ~IsNaN(slice[k])}
        best == CHOOSE k \in valid :
                    /\ \A j \in valid : slice[j] <= slice[k]
                    /\ \A j \in valid : j < k => slice[j] < slice[k]
    IN  IF valid = {} THEN <<call.no_data>> ELSE <<LevelAt(l, best - 1)>>

\* C18: to_class on a categorical layer returns one label per row of the
\* given table: the label of the first column holding the maximum non-NaN
\* value of the layer's slice, and the no-data token when the slice is all
\* NaN.
C18_ToClassLabels ==
    ClassCalled =>
        /\ call.out.res.status = "ok"
        /\ Len(call.out.res.labels) = call.out.data.nrows
        /\ \A r \in 1..call.out.data.nrows :
              call.out.res.labels[r]
                  = ExpectedLabel(DfGetRow(call.out.data, r - 1), call.out.layer + 1)

\* a to_class or to_denormalized call has come back
LayerCalled(op) == call.fn = "proc" /\ call.step = "done" /\ call.out.op = op

\* C19: to_class on a continuous layer returns a DataTypeError and no
\* labels, and to_denormalized on a categorical layer returns a
\* DataTypeError.
C19_WrongLayerKindIsError ==
    /\ LayerCalled("to_class") /\ ~call.input_layers[call.out.layer + 1].is_class =>
          call.out.res.status = "err" /\ call.out.res.labels = <<>>
    /\ LayerCalled("to_denormalized") /\ call.input_layers[call.out.layer + 1].is_class =>
          call.out.res.status = "err"

\* the header write_data_nearest should write: the preserved columns, then
\* per layer the name of a categorical layer or the column names of a
\* continuous one, then som_index, som_row, som_col
RECURSIVE LayerHeader(_)
LayerHeader(l) ==
    IF l > Len(call.input_layers) THEN <<>>
    ELSE (IF call.input_layers[l].is_class
          THEN <<<<call.input_layers[l].names[1]>>>>
          ELSE [k \in 1..Len(call.input_layers[l].names) |->
                   <<call.input_layers[l].names[k]>>]) \o LayerHeader(l + 1)

ExpectedHeader ==
    [k \in 1..Len(call.preserve) |-> <<call.preserve[k]>>]
        \o LayerHeader(1)
        \o <<<<"som_index">>, <<"som_row">>, <<"som_col">>>>

\* the decoded cells of record r, layer by layer: the class label of a
\* categorical layer, the denormalized values of a continuous one
RECURSIVE LayerCells(_, _)
LayerCells(r, l) ==
    IF l > Len(call.input_layers) THEN <<>>
    ELSE (IF call.input_layers[l].is_class
          THEN <<StrCell(ToClass(call.proc, call.out.data, l - 1).labels[r])>>
          ELSE LET df == ToDenormalized(call.proc, call.out.data, l - 1).df
               IN  [k \in 1..df.ncols |->
                       IF IsNaN(DfGet(df, r - 1, k - 1))
                       THEN StrCell(<<call.no_data>>)
                       ELSE F64Cell(DfGet(df, r - 1, k - 1))])
         \o LayerCells(r, l + 1)

\* the record write_data_nearest should write for row r of the data
ExpectedRecord(r) ==
    LET near == nearest_neighbor_xyf(DfGetRow(call.out.data, r - 1), weights,
                                     call.proc.layers).idx
    IN  [k \in 1..Len(call.preserve) |->
            StrCell(<<call.records[r][Position(call.header, call.preserve[k]) + 1]>>)]
        \o LayerCells(r, 1)
        \o <<UsizeCell(near), UsizeCell(near \div ncols), UsizeCell(near % ncols)>>

\* C20: write_data_nearest writes the header and one record per row of the
\* data, every record aligned with the header: the preserved columns, the
\* decoded values of each layer in order, then som_index, som_row and
\* som_col of the XYF best-matching unit; no cell is overwritten and no
\* write falls outside the record.
C20_RecordsAlignedWithHeader ==
    LayerCalled("write_data_nearest") =>
        /\ call.out.written.status = "ok"
        /\ call.out.written.names = ExpectedHeader
        /\ Len(call.out.written.rows) = call.out.data.nrows
        /\ \A r \in 1..call.out.data.nrows :
              call.out.written.rows[r] = ExpectedRecord(r)

\* the header write_som_units should write: index, row, col, then per layer
\* the columns of its denormalized weights (a continuous layer, and a
\* categorical one when class_values is set) followed by the name of a
\* categorical layer
RECURSIVE UnitsLayerHeader(_)
UnitsLayerHeader(l) ==
    IF l > Len(call.input_layers) THEN <<>>
    ELSE LET inp == call.input_layers[l]
         IN  (IF ~inp.is_class
              THEN [k \in 1..Len(inp.names) |-> <<inp.names[k]>>]
              ELSE IF call.out.class_values
              THEN [k \in 1..BlockWidth(l) |->
                       <<inp.names[1], ":", LevelAt(l, k - 1)>>]
              ELSE <<>>)
             \o (IF inp.is_class THEN <<<<inp.names[1]>>>> ELSE <<>>)
             \o UnitsLayerHeader(l + 1)

\* the decoded cells of unit u (from 0), layer by layer
RECURSIVE UnitsLayerCells(_, _)
UnitsLayerCells(u, l) ==
    IF l > Len(call.input_layers) THEN <<>>
    ELSE LET inp == call.input_layers[l]
         IN  (IF call.out.class_values \/ ~inp.is_class
              THEN [k \in 1..BlockWidth(l) |->
                       F64Cell(Transform(call.proc.denorm[BlockStart(l) + k],
                                         DfGet(weights, u, BlockStart(l) + k - 1)))]
              ELSE <<>>)
             \o (IF inp.is_class
                 THEN <<StrCell(ToClass(call.proc, weights, l - 1).labels[u + 1])>>
                 ELSE <<>>)
             \o UnitsLayerCells(u, l + 1)

\* C21: write_som_units writes the header and one record per unit, every
\* record aligned with the header: index, row, col with
\* index = row * ncols + col, then for each layer in order its denormalized
\* weights (continuous layers, and categorical ones when class_values is
\* set) followed by the class label of a categorical layer; no write falls
\* outside the record.
C21_UnitRecordsAlignedWithHeader ==
    LayerCalled("write_som_units") =>
        /\ call.out.written.status = "ok"
        /\ call.out.written.names
              = <<<<"index">>, <<"row">>, <<"col">>>> \o UnitsLayerHeader(1)
        /\ Len(call.out.written.rows) = nrows * ncols
        /\ \A u \in 0..(nrows * ncols - 1) :
              call.out.written.rows[u + 1]
                  = <<UsizeCell(u), UsizeCell(u \div ncols), UsizeCell(u % ncols)>>
                        \o UnitsLayerCells(u, 1)

\* C24: for every built Processor the number of columns of its data frame
\* equals the number of its column names and the sum of the ncols of its
\* layers, where a continuous layer has as many columns as it lists and a
\* categorical layer as many as it has distinct non-missing levels (none
\* when every cell is missing); the Som of create_som has that many dims
\* and weight columns, and start_columns[i] is the sum of the widths of the
\* layers before layer i.
C24_ColumnCountsAgree ==
    /\ Built =>
          /\ call.proc.data.ncols = Len(call.proc.data.names)
          /\ call.proc.data.ncols = LayerWidth(call.proc.layers, 1)
          /\ \A l \in 1..Len(call.proc.layers) : call.proc.layers[l].ncols = BlockWidth(l)
    /\ call.fn = "proc" /\ call.step \in {"som", "done"} =>
          /\ dims = call.proc.data.ncols
          /\ weights.ncols = call.proc.data.ncols
          /\ Len(params.start_columns) = Len(call.proc.layers)
          /\ \A l \in 1..Len(call.proc.layers) :
                params.start_columns[l] = SliceStart(call.proc.layers, l)


-----------------------------------------------------------------------------
(* The layer weights of a multi-layer Som (SpecLayers): layers handed to   *)
(* SomParams::xyf directly, and layers derived by Processor::read_file.    *)

\* the most layers of a Som
MaxLayers == 3

\* the weights layers are given
LayerWeights == {One \div 4, Half, One, 2 * One}

\* layer lists of 2..MaxLayers one-column layers
LayerLists ==
    UNION {[1..n -> {Layer(1, w, c) : w \in LayerWeights, c \in BOOLEAN}] :
              n \in 2..MaxLayers}

InitLayers ==
    /\ IdleSom
    /\ \E given \in LayerLists, path \in {"xyf", "read_file"} :
          call = [fn |-> "layers", path |-> path, given |-> given, step |-> "new",
                  layers |-> <<>>, start_columns |-> <<>>]

\* SomParams::xyf(.., layers) on layers built by Layer::new
XyfParams ==
    /\ call.fn = "layers" /\ call.step = "new" /\ call.path = "xyf"
    /\ \E p \in {SomParamsXyf(2, "Gauss", Lin(One, 0), Lin(One, 0), Lin(One, One),
                              call.given)} :
          call' = [call EXCEPT !.step = "done", !.layers = p.layers,
                               !.start_columns = p.start_columns]
    /\ UNCHANGED somVars

\* Processor::read_file, lines 297-315, and create_som: the layers derived
\* from input layers of the given weights, each of one column
ReadFileParams ==
    /\ call.fn = "layers" /\ call.step = "new" /\ call.path = "read_file"
    /\ \E p \in {SomParamsXyf(2, "Gauss", Lin(One, 0), Lin(One, 0), Lin(One, One),
                    ProcLayers([l \in 1..Len(call.given) |->
                                   IF call.given[l].categorical
                                   THEN InputLayerCat("c", call.given[l].weight)
                                   ELSE InputLayerCont(<<"x">>, call.given[l].weight,
                                                       "None", None)],
                               [l \in 1..Len(call.given) |-> <<>>]))} :
          call' = [call EXCEPT !.step = "done", !.layers = p.layers,
                               !.start_columns = p.start_columns]
    /\ UNCHANGED somVars

NextLayers == XyfParams \/ ReadFileParams

SpecLayers == InitLayers /\ [][NextLayers]_vars

\* the sum of the weights of the layers from l on
RECURSIVE WeightSum(_, _)
WeightSum(layers, l) ==
    IF l > Len(layers) THEN 0 ELSE layers[l].weight + WeightSum(layers, l + 1)

\* 1.0 up to the rounding of one division and one product per layer
NearOne(s) == Abs(s - One) <= 2 * MaxLayers + 2

\* C22: the layer weights of a Som with more than one layer sum to 1, each
\* the supplied weight divided by the sum of the supplied weights, for
\* layers from the Processor and for layers passed to SomParams::xyf.
C22_LayerWeightsSumToOne ==
    call.fn = "layers" /\ call.step = "done" /\ Len(call.layers) > 1 =>
        NearOne(WeightSum(call.layers, 1))

-----------------------------------------------------------------------------
(* Claims on single train() and epoch() calls of the training state        *)
(* machine (Spec).                                                         *)

\* C23: Som::new and epoch() take no seed, so two runs agree in their seed
\* whenever they agree in their arguments; two epoch() calls on the same
\* Som with the same samples and count end with identical weights in every
\* cell, whatever the generator draws.
C23_SameArgumentsSameWeights ==
    status = "ok" /\ ~EpochDone =>
        \A samples \in SampleFrames(dims), count \in Counts :
            \A p1, p2 \in Shuffles(samples.nrows) :
                TrainAll(weights, samples, Take(p1, count, samples.nrows), 1, <<>>).weights
                    = TrainAll(weights, samples, Take(p2, count, samples.nrows), 1, <<>>).weights

\* v is `target` up to the rounding of the quotient d / sigma, of the kernel
\* and of the two products; NaN only for NaN
NearUpdate(v, target) ==
    IF IsNaN(target) \/ IsNaN(v) THEN IsNaN(target) /\ IsNaN(v)
    ELSE Abs(v - target) <= 10

\* old + w * alpha * (s - old)
Updated(old, w, alpha, s) == FAdd(old, FMul(FMul(w, alpha), FSub(s, old)))

\* C26: after train(sample) every unit at grid distance d <= R from the
\* best-matching unit has, in each component k the sample has,
\* old + kernel.weight(d / sigma) * alpha * (sample[k] - old), alpha and
\* sigma the schedule values at the epoch counter; the best-matching unit
\* itself is always updated, to old + alpha * (sample[k] - old).
C26_NeighborhoodUpdate ==
    \A n \in 1..Len(trace) :
        \A alpha \in {DecayGet(params.alpha, trace[n].epoch, params.epochs)},
           sigma \in {DecayGet(params.radius, trace[n].epoch, params.epochs)},
           R \in {SearchRadiusAt(trace[n].epoch)} :
            \A u \in Units, k \in 0..(dims - 1) :
                \A d \in {DfGet(distances_matrix, trace[n].nearest, u)},
                   old \in {DfGet(trace[n].before, u, k)},
                   s \in {trace[n].sample[k + 1]} :
                    ~IsNaN(s) =>
                        /\ FLe(d, R) =>
                              NearUpdate(DfGet(trace[n].after, u, k),
                                         Updated(old,
                                                 KernelWeight(params.neighborhood,
                                                              FDiv(d, sigma)),
                                                 alpha, s))
                        /\ u = trace[n].nearest =>
                              NearUpdate(DfGet(trace[n].after, u, k),
                                         Updated(old, One, alpha, s))

\* C27: during a single train(sample) call, for every index k where
\* sample[k] is NaN, column k of the weights of every unit is left
\* unchanged.
C27_NanComponentSkipped ==
    \A n \in 1..Len(trace) :
        \A k \in 0..(dims - 1) :
            IsNaN(trace[n].sample[k + 1]) =>
                Column(trace[n].after, k) = Column(trace[n].before, k)

\* a train() call on a sample with a missing component that changed the
\* weights in another column
C27_Witness ==
    \E n \in 1..Len(trace) :
        /\ \E k \in 0..(dims - 1) : IsNaN(trace[n].sample[k + 1])
        /\ \E k \in 0..(dims - 1) :
              /\ ~IsNaN(trace[n].sample[k + 1])
              /\ Column(trace[n].after, k) # Column(trace[n].before, k)

\* C28: an epoch() call that returns Some invokes train() exactly
\* min(count.unwrap_or(nrows), nrows) times, nrows the number of sample
\* rows, each time on a different row; with count = None every row is
\* trained on exactly once.  (Stated on the train() calls epoch() makes
\* from the current state, for every argument it can be given.)
C28_TrainCountPerEpoch ==
    (status = "ok" /\ ~EpochDone) =>
        \A samples \in SampleFrames(dims) :
            \A taken \in {Take(p, count, samples.nrows) :
                              p \in Shuffles(samples.nrows), count \in Counts} :
                \A res \in {TrainAll(weights, samples, taken, 1, <<>>)} :
                    ~res.panicked =>
                        /\ \A i, j \in 1..Len(res.trace) :
                              res.trace[i].row = res.trace[j].row => i = j
                        /\ \A i \in 1..Len(res.trace) :
                              /\ res.trace[i].row \in 0..(samples.nrows - 1)
                              /\ res.trace[i].sample
                                    = DfGetRow(samples, res.trace[i].row)
                        /\ \A count \in Counts, p \in Shuffles(samples.nrows) :
                              taken = Take(p, count, samples.nrows) =>
                                  /\ Len(res.trace) = Min(UnwrapOr(count, samples.nrows),
                                                          samples.nrows)
                                  /\ ~count.some =>
                                        {res.trace[i].row : i \in 1..Len(res.trace)}
                                            = 0..(samples.nrows - 1)

\* an epoch() call that returned Some after training on one row of a table
\* of two rows
C28_Witness ==
    /\ returned = "some"
    /\ Len(trace) = 1
    /\ trace[1].sample \in {DfGetRow(FullFrame(dims), r) : r \in 0..1}

\* the weights the train() calls of a trace end with, from the weights w
LastTrained(w, tr) == IF Len(tr) = 0 THEN w ELSE tr[Len(tr)].after

\* C29: an epoch() call that returns Some first trains on all selected
\* samples, then applies the decay once to every weight cell with the column
\* means taken once, before any cell is decayed, then increments the epoch
\* counter; alpha, radius and decay of the call are evaluated at the
\* counter e the call started with, and the k-th successful call uses
\* schedule index k - 1.
C29_EpochStepOrder ==
    [][returned' = "some" =>
          /\ epoch = somes
          /\ somes' = somes + 1
          /\ epoch' = epoch + 1
          /\ \A n \in 1..Len(trace') :
                /\ trace'[n].epoch = epoch
                /\ trace'[n].before = (IF n = 1 THEN weights ELSE trace'[n - 1].after)
                /\ trace'[n].after = Train(trace'[n].before, trace'[n].sample).weights
          /\ \A last \in {LastTrained(weights, trace')},
                d \in {DecayGet(params.decay, epoch, params.epochs)} :
                /\ weights'.nrows = last.nrows /\ weights'.ncols = last.ncols
                /\ \A c \in 0..(last.ncols - 1) :
                      \A m \in {MeansLoop(last, 0, c, 0, 0)} :
                          \A r \in 0..(last.nrows - 1) :
                              DfGet(weights', r, c) =
                                  FSub(DfGet(last, r, c),
                                       FMul(d, FSub(DfGet(last, r, c), m)))]_vars

\* the second successful epoch() call of a Som with several units trained on
\* two samples, and its decay changed the trained weights
C29_Witness ==
    /\ returned = "some"
    /\ epoch = 2
    /\ nrows * ncols >= 2
    /\ Len(trace) = 2
    /\ trace[2].after # trace[1].after
    /\ weights # trace[2].after

-----------------------------------------------------------------------------
(* The rectangle of Som::train around the best-matching unit (SpecRect):   *)
(* lines 359-372 on a grid, a best-matching unit and a search radius, in   *)
(* the build with and in the build without overflow checks.                *)

\* the search radii R = sigma * kernel.radius() the rectangle is built for;
\* F64Max stands for every value beyond the range of i32
SearchRadii == {0, Half, One, 1414, 1415, 2 * One, 2236, 3 * One, F64Max}

InitRect ==
    /\ \E nr \in 1..MaxGrid, nc \in 1..MaxGrid :
          /\ nrows = nr
          /\ ncols = nc
          /\ distances_matrix = CalcDistanceMatix(nr, nc)
          /\ \E nearest \in 0..(nr * nc - 1), search_rad \in SearchRadii,
                overflow_checks \in BOOLEAN :
                call = [fn |-> "rect", step |-> "new", nearest |-> nearest,
                        search_rad |-> search_rad,
                        overflow_checks |-> overflow_checks, panicked |-> FALSE,
                        rect |-> [r_min |-> 0, r_max |-> -1, c_min |-> 0, c_max |-> -1],
                        visited |-> {}, updated |-> {}]
    /\ dims = 0 /\ epoch = 0
    /\ weights = DfFilled(0, 0, 0)
    /\ initial = DfFilled(0, 0, 0)
    /\ params = SomParamsSimple(0, "Gauss", Lin(0, 0), Lin(0, 0), Lin(0, 0))
    /\ status = "ok" /\ calls = 0 /\ somes = 0 /\ returned = "-"
    /\ trace = <<>> /\ fed = {}

\* Som::train, lines 368-369: the units the two loops reach
RectUnits(rect) ==
    {ToIndex(r, c) : r \in rect.r_min..rect.r_max, c \in rect.c_min..rect.c_max}

\* Som::train, lines 360-372: the rectangle, the units the loops visit and
\* the units that pass the ball test
TrainRectCall ==
    /\ call.fn = "rect" /\ call.step = "new"
    /\ \E search_rad_i \in {FloorAsI32(call.search_rad)} :
          IF call.overflow_checks /\ RectOverflows(call.nearest, search_rad_i)
          THEN call' = [call EXCEPT !.step = "done", !.panicked = TRUE]
          ELSE \E rect \in {TrainRect(call.nearest, search_rad_i)} :
                   call' = [call EXCEPT
                              !.step = "done", !.rect = rect,
                              !.visited = RectUnits(rect),
                              !.updated =
                                  {u \in RectUnits(rect) :
                                       InBall(DfGet(distances_matrix, call.nearest, u),
                                              call.search_rad)}]
    /\ UNCHANGED somVars

SpecRect == InitRect /\ [][TrainRectCall]_vars

\* C25: the clipped rectangle of half-width floor(R) around the
\* best-matching unit contains every unit whose planar Euclidean distance
\* to it is at most R, for every grid size, position and R >= 0: every unit
\* of the ball is visited, and no loop index lies outside the grid.
C25_RectangleCoversBall ==
    (call.fn = "rect" /\ call.step = "done" /\ call.search_rad >= 0) =>
        /\ ~call.panicked
        /\ \A u \in Units :
              InBall(DfGet(distances_matrix, call.nearest, u), call.search_rad)
                  => u \in call.visited
        /\ call.rect.r_min >= 0 /\ call.rect.r_max <= nrows - 1
        /\ call.rect.c_min >= 0 /\ call.rect.c_max <= ncols - 1

-----------------------------------------------------------------------------
(* The GUI host (SpecHost): kohvis::kohonen_gd::Kohonen, whose _process    *)
(* callback runs once per frame and calls Som::epoch in a loop until       *)
(* training is complete or 25 ms have passed.  One step of the model is    *)
(* one pass of the loop; call.pc is the position of the callback.          *)

\* the host runs at most MaxFrames frames
MaxFrames == 4

\* the parameter sets of create_som, which always builds SomParams::xyf
HostChoices == {p \in ParamChoices : Len(p.layers) > 0}

\* Kohonen::_init: no processor, no Som, no command line, not done
InitHost ==
    /\ IdleSom
    /\ call = [fn |-> "host", ready |-> FALSE, done |-> FALSE, pc |-> "idle",
               frames |-> 0, output |-> None, data |-> DfFilled(0, 0, 0),
               written |-> 0, files |-> {}]

\* Kohonen::_ready: the processor, the Som of create_som and the parsed
\* command line, with or without an output base name
HostReady ==
    /\ call.fn = "host" /\ ~call.ready /\ status = "ok"
    /\ \E nr \in 1..2, nc \in 1..2, e \in 0..MaxEpochs, p \in HostChoices :
          /\ dims' = p.dims
          /\ nrows' = nr
          /\ ncols' = nc
          /\ weights' = InitWeights(NewWeights(p.dims, nr, nc), p.seed)
          /\ initial' = InitWeights(NewWeights(p.dims, nr, nc), p.seed)
          /\ distances_matrix' = CalcDistanceMatix(nr, nc)
          /\ params' = SomParamsXyf(e, p.neighborhood, p.alpha, p.radius, p.decay,
                                    p.layers)
          /\ \E output \in {None, Some(1)} :
                call' = [call EXCEPT !.ready = TRUE, !.output = output,
                                     !.data = FullFrame(p.dims)]
    /\ UNCHANGED <<epoch, status, calls, somes, returned, trace, fed>>

\* Kohonen::_process, lines 87-91: the callback is entered; without a
\* processor, a Som and a command line it returns at once
ProcessEnter ==
    /\ call.fn = "host" /\ call.pc = "idle" /\ status = "ok"
    /\ call.frames < MaxFrames
    /\ call' = [call EXCEPT !.frames = @ + 1,
                            !.pc = IF call.ready THEN "loop" ELSE "idle"]
    /\ UNCHANGED somVars

\* write_output: the four files are written when an output name is given;
\* every write is unwrapped, so a failed write panics
WriteOutput(output, io_ok) ==
    IF ~output.some THEN [panicked |-> FALSE, files |-> {}]
    ELSE IF ~io_ok THEN [panicked |-> TRUE, files |-> {}]
    ELSE [panicked |-> FALSE, files |-> {"units", "out", "norm", "som"}]

\* the guard of line 95 left out
NotDoneAlways == TRUE

\* Kohonen::_process, line 95
NotDone == ~call.done

\* Kohonen::_process, lines 92-104: one pass of the loop.  epoch() is called
\* on the data of the processor; on None the output is written unless done
\* and the loop ends, otherwise the loop ends when more than 25 ms have
\* passed since the callback was entered.
ProcessLoop ==
    /\ call.fn = "host" /\ call.pc = "loop" /\ status = "ok"
    /\ \E p \in Shuffles(call.data.nrows) :
          /\ EpochCall(call.data, Take(p, None, call.data.nrows))
          /\ IF returned' = "none"
             THEN IF NotDone
                  THEN \E io_ok \in BOOLEAN :
                         \E w \in {WriteOutput(call.output, io_ok)} :
                           IF w.panicked
                           THEN call' = [call EXCEPT !.written = @ + 1,
                                                     !.pc = "panicked"]
                           ELSE call' = [call EXCEPT !.written = @ + 1,
                                                     !.files = w.files,
                                                     !.done = TRUE,
                                                     !.pc = "idle"]
                  ELSE call' = [call EXCEPT !.pc = "idle"]
             ELSE \E elapsed_over_25 \in BOOLEAN :
                    call' = [call EXCEPT !.pc = IF elapsed_over_25 THEN "idle"
                                                ELSE "loop"]

NextHost == HostReady \/ ProcessEnter \/ ProcessLoop

SpecHost == InitHost /\ [][NextHost]_vars

====
